---- MODULE Spec2Model ----
(***************************************************************************)
(* Model of the snake reverse proxy: the round-robin rotation state        *)
(* (src/src/config.rs), the request forwarder (src/src/proxy.rs) and the   *)
(* event-stream synthesizer (src/src/stream.rs).                           *)
(*                                                                         *)
(* Text is modelled by TLC strings (concatenated with \o); a string whose  *)
(* characters the code inspects (the chat content that is split into       *)
(* words) is a sequence of one-character strings.  A byte string is a      *)
(* record [utf8, text]: utf8 = FALSE stands for a byte string that is not  *)
(* valid UTF-8.                                                            *)
(***************************************************************************)
EXTENDS Integers, Sequences, FiniteSets, TLC

(***************************************************************************)
(* Bounds of the model.                                                    *)
(***************************************************************************)
MaxGateways == 3      \* gateways configured: 1..MaxGateways
MaxCalls == 4         \* selections (fetch_add on the gateway counter) per run
CounterBits == 3      \* width of the modelled usize counter
NumTasks == 2         \* concurrently running tasks
MaxKeys == 3          \* API keys of a provider: 0..MaxKeys

Modulus == 2 ^ CounterBits
Tasks == 1 .. NumTasks

None == [t |-> "none"]

(***************************************************************************)
(* serde_json::Value.  An object is a function from keys to values; the    *)
(* default serde_json map is ordered by key.                               *)
(***************************************************************************)
JNull == [t |-> "null"]
JBool(b) == [t |-> "bool", b |-> b]
JNum(n) == [t |-> "num", n |-> n]
JStr(s) == [t |-> "str", s |-> s]
JArr(a) == [t |-> "arr", a |-> a]
JObj(o) == [t |-> "obj", o |-> o]

\* every object key of the model, in byte order (the order of the map)
SortedKeys ==
  << "choices", "completion_tokens", "content", "created", "delta", "error",
     "finish_reason", "id", "index", "message", "model", "object", "role",
     "stream", "temperature", "usage" >>

\* Operators that inspect an argument several times bind it to its value
\* once (x \in {argument}) before they inspect it.
RECURSIVE Flat(_)
Flat(chars) ==
  CHOOSE r \in {IF s = <<>> THEN ""
                ELSE IF Len(s) = 1 THEN s[1]
                ELSE Flat(SubSeq(s, 1, Len(s) \div 2))
                       \o Flat(SubSeq(s, Len(s) \div 2 + 1, Len(s))) : s \in {chars}} : TRUE

RECURSIVE Join(_, _)
Join(parts, sep) ==
  CHOOSE r \in {IF s = <<>> THEN ""
                ELSE IF Len(s) = 1 THEN s[1]
                ELSE s[1] \o sep \o Join(Tail(s), sep) : s \in {parts}} : TRUE

\* serde_json's string escaping of one character
EscapeChar(c) ==
  CASE c = "\"" -> "\\\""
    [] c = "\\" -> "\\\\"
    [] c = "\n" -> "\\n"
    [] c = "\t" -> "\\t"
    [] c = "\r" -> "\\r"
    [] OTHER -> c

QuoteChars(s) == "\"" \o Flat([i \in 1 .. Len(s) |-> EscapeChar(s[i])]) \o "\""

\* serde_json::to_string / to_vec: compact text, object keys in map order
RECURSIVE to_string(_)
to_string(value) ==
  LET text(v) ==
        CASE v.t = "null" -> "null"
          [] v.t = "bool" -> IF v.b THEN "true" ELSE "false"
          [] v.t = "num" -> ToString(v.n)
          [] v.t = "str" -> QuoteChars(v.s)
          [] v.t = "arr" ->
               "[" \o Join([i \in 1 .. Len(v.a) |-> to_string(v.a[i])], ",") \o "]"
          [] v.t = "obj" ->
               LET keys == SelectSeq(SortedKeys, LAMBDA k : k \in DOMAIN v.o)
               IN "{" \o Join([i \in 1 .. Len(keys) |->
                                 "\"" \o keys[i] \o "\":" \o to_string(v.o[keys[i]])], ",")
                      \o "}"
  IN CHOOSE r \in {text(v) : v \in {value}} : TRUE

(***************************************************************************)
(* Byte strings and JSON text.                                             *)
(***************************************************************************)
Bytes(text) == [utf8 |-> TRUE, text |-> text]
InvalidUtf8 == [utf8 |-> FALSE, text |-> "\\xff\\xfe"]

Ok(v) == [ok |-> TRUE, v |-> v]
Err == [ok |-> FALSE]

\* a JSON object as it is written in a body: pairs in textual order,
\* possibly with a repeated key
RawObj(pairs) == [t |-> "rawobj", pairs |-> pairs]

RawText(d) ==
  IF d.t = "rawobj"
  THEN "{" \o Join([i \in 1 .. Len(d.pairs) |->
                     "\"" \o d.pairs[i][1] \o "\":" \o to_string(d.pairs[i][2])], ",")
           \o "}"
  ELSE to_string(d)

\* the Value serde_json builds for a written document: a repeated key keeps
\* its last value
ValueOf(d) ==
  IF d.t = "rawobj"
  THEN LET idx(k) == {i \in 1 .. Len(d.pairs) : d.pairs[i][1] = k}
           last(k) == CHOOSE i \in idx(k) : \A j \in idx(k) : j <= i
       IN JObj([k \in {d.pairs[i][1] : i \in 1 .. Len(d.pairs)} |-> d.pairs[last(k)][2]])
  ELSE d

Chars_m == <<"m">>
Chars_true == <<"t", "r", "u", "e">>
Chars_Hello_world == <<"H", "e", "l", "l", "o", " ", "w", "o", "r", "l", "d">>
Chars_padded == <<" ", "a", " ", "\t", "b", "c", "\n">>
Chars_blank == <<" ", "\n", " ">>
Chars_ok == <<"o", "k">>
Chars_stop == <<"s", "t", "o", "p">>
Chars_length == <<"l", "e", "n", "g", "t", "h">>
Chars_assistant == <<"a", "i">>
Chars_c1 == <<"c", "1">>

(***************************************************************************)
(* Inbound request bodies.                                                 *)
(***************************************************************************)
InboundDocs ==
  << RawObj(<< <<"model", JStr(Chars_m)>>, <<"stream", JBool(TRUE)>> >>),
     RawObj(<< <<"stream", JBool(TRUE)>>, <<"temperature", JNum(1)>>,
               <<"model", JStr(Chars_m)>> >>),
     RawObj(<< <<"stream", JBool(FALSE)>>, <<"stream", JBool(TRUE)>> >>),
     RawObj(<< <<"model", JStr(Chars_m)>>, <<"stream", JBool(FALSE)>> >>),
     RawObj(<< <<"temperature", JNum(1)>>, <<"model", JStr(Chars_m)>> >>),
     RawObj(<< <<"stream", JBool(TRUE)>>, <<"stream", JBool(FALSE)>> >>),
     RawObj(<< <<"model", JStr(Chars_m)>>, <<"stream", JStr(Chars_true)>> >>),
     RawObj(<< <<"stream", JNum(1)>> >>),
     JArr(<< JBool(TRUE) >>) >>

InboundTexts == << "not json", "" >>

InboundBodies ==
  [i \in 1 .. Len(InboundDocs) |-> Bytes(RawText(InboundDocs[i]))]
  \o [i \in 1 .. Len(InboundTexts) |-> Bytes(InboundTexts[i])]
  \o << InvalidUtf8 >>

(***************************************************************************)
(* Upstream response bodies.                                               *)
(***************************************************************************)
Message(content) == JObj([role |-> JStr(Chars_assistant), content |-> content])

UpstreamDocs ==
  << \* chat completion with every field
     JObj([id |-> JStr(Chars_c1), created |-> JNum(7), model |-> JStr(Chars_m),
           choices |-> JArr(<< JObj([index |-> JNum(0),
                                     message |-> Message(JStr(Chars_Hello_world)),
                                     finish_reason |-> JStr(Chars_stop)]) >>),
           usage |-> JObj([completion_tokens |-> JNum(2)])]),
     \* no id, created, model, finish_reason, usage; irregular whitespace
     JObj([choices |-> JArr(<< JObj([message |-> Message(JStr(Chars_padded))]) >>)]),
     \* one word, two choices
     JObj([id |-> JStr(Chars_c1),
           choices |-> JArr(<< JObj([message |-> Message(JStr(Chars_ok)),
                                     finish_reason |-> JStr(Chars_length)]),
                               JObj([message |-> Message(JStr(Chars_Hello_world)),
                                     finish_reason |-> JStr(Chars_stop)]) >>)]),
     \* empty and whitespace-only content
     JObj([choices |-> JArr(<< JObj([message |-> Message(JStr(<<>>)),
                                     finish_reason |-> JNull]) >>)]),
     JObj([model |-> JStr(Chars_m),
           choices |-> JArr(<< JObj([message |-> Message(JStr(Chars_blank))]) >>)]),
     \* first choice without a string content
     JObj([id |-> JStr(Chars_c1),
           choices |-> JArr(<< JObj([index |-> JNum(0),
                                     finish_reason |-> JStr(Chars_stop)]) >>)]),
     JObj([choices |-> JArr(<< JObj([message |-> Message(JNull)]) >>)]),
     JObj([choices |-> JArr(<< JObj([message |-> JObj([role |-> JStr(Chars_assistant)])]),
                               JObj([message |-> Message(JStr(Chars_ok))]) >>)]),
     \* empty choices
     JObj([id |-> JStr(Chars_c1), choices |-> JArr(<<>>)]),
     \* no choices array
     JObj([error |-> JStr(Chars_stop)]),
     JObj([choices |-> JStr(Chars_ok), model |-> JStr(Chars_m)]),
     JArr(<< JNum(1) >>),
     JStr(Chars_ok) >>

UpstreamTexts == << "plain text", "[DONE]", "" >>

UpstreamBodies ==
  [i \in 1 .. Len(UpstreamDocs) |-> Bytes(to_string(UpstreamDocs[i]))]
  \o [i \in 1 .. Len(UpstreamTexts) |-> Bytes(UpstreamTexts[i])]
  \o << InvalidUtf8 >>

\* mpsc::channel(100) (stream.rs 12)
ChannelCapacity == 100

\* a chat completion whose content has more words than the channel has
\* slots: the words are the numbers 001, 002, ... separated by one space
LongWords == ChannelCapacity + 1
LongDoc ==
  LET Digit(d) == << "0", "1", "2", "3", "4", "5", "6", "7", "8", "9" >>[d + 1]
      LongContent ==
        [i \in 1 .. 4 * LongWords - 1 |->
           LET k == (i - 1) \div 4 + 1
               j == (i - 1) % 4
           IN IF j = 0 THEN Digit(k \div 100)
              ELSE IF j = 1 THEN Digit((k \div 10) % 10)
              ELSE IF j = 2 THEN Digit(k % 10)
              ELSE " "]
  IN JObj([id |-> JStr(Chars_c1), model |-> JStr(Chars_m),
           choices |-> JArr(<< JObj([message |-> Message(JStr(LongContent)),
                                     finish_reason |-> JStr(Chars_length)]) >>)])
LongBody == Bytes(to_string(LongDoc))

\* serde_json::from_slice::<Value>: the documents of the model are looked
\* up by their text; every other byte string of the model is not JSON
\* documents that occur only as rewritten (forwarded) bodies
ForwardedDocs ==
  << JObj([model |-> JStr(Chars_m), stream |-> JBool(FALSE), temperature |-> JNum(1)]),
     JObj([stream |-> JBool(FALSE)]),
     JObj([model |-> JStr(Chars_m), stream |-> JBool(TRUE), temperature |-> JNum(1)]),
     JObj([stream |-> JBool(TRUE)]) >>

JsonDocs == InboundDocs \o UpstreamDocs \o ForwardedDocs \o << LongDoc >>
JsonTexts == [i \in 1 .. Len(JsonDocs) |-> RawText(JsonDocs[i])]

from_slice(bytes) ==
  LET parsed(hits) ==
        IF hits = {} THEN Err
        ELSE Ok(ValueOf(JsonDocs[CHOOSE i \in hits : TRUE]))
  IN CHOOSE r \in {parsed({i \in 1 .. Len(JsonDocs) :
                              b.utf8 /\ JsonTexts[i] = b.text}) : b \in {bytes}} : TRUE

\* a conversion that accepts every byte string
from_utf8_lossy(bytes) == Ok(bytes.text)

\* String::from_utf8
from_utf8(bytes) == IF bytes.utf8 THEN Ok(bytes.text) ELSE Err

\* Value::get(key): None when the value is not an object or lacks the key
Get(v, key) ==
  CHOOSE r \in {IF x.t = "obj" /\ key \in DOMAIN x.o THEN x.o[key] ELSE None :
                  x \in {v}} : TRUE

\* str::split_whitespace: the maximal runs of non-whitespace characters
WhiteSpace == {" ", "\t", "\n", "\r"}

RECURSIVE split_whitespace(_)
split_whitespace(content) ==
  LET \* the whitespace position nearest to the middle cuts the string in two
      cut(s, stops, m) ==
        CHOOSE i \in stops : \A j \in stops : (i - m) * (i - m) <= (j - m) * (j - m)
      halves(s, at) ==
        split_whitespace(SubSeq(s, 1, at - 1)) \o split_whitespace(SubSeq(s, at + 1, Len(s)))
      words(s, stops) ==
        IF stops = {} THEN IF s = <<>> THEN <<>> ELSE << s >>
        ELSE CHOOSE r \in {halves(s, at) : at \in {cut(s, stops, (Len(s) + 1) \div 2)}} : TRUE
      runs(s) ==
        CHOOSE r \in {words(s, stops) :
                        stops \in {{i \in 1 .. Len(s) : s[i] \in WhiteSpace}}} : TRUE
  IN CHOOSE r \in {runs(s) : s \in {content}} : TRUE

(***************************************************************************)
(* Configuration (config.rs).                                              *)
(***************************************************************************)
Gateway(i) ==
  [account_id |-> "acct" \o ToString(i),
   gateway_id |-> "gw" \o ToString(i),
   token |-> "tok" \o ToString(i)]

\* a token that is not a legal header value (it contains a line break)
ControlCharToken == "tok\nx"

GatewayWithControlChar(i) == [Gateway(i) EXCEPT !.token = ControlCharToken]

base_url(g) ==
  "https://gateway.ai.cloudflare.com/v1/" \o g.account_id \o "/" \o g.gateway_id

openai_compat_path == "/compat/chat/completions"

\* a fetch_add whose increment is lost
fetch_add_lost(counter) == counter

\* AtomicUsize::fetch_add(1): the new counter value (the old one is returned)
fetch_add(counter) == (counter + 1) % Modulus

\* usize::saturating_sub: a subtraction that stops at 0
saturating_sub(a, b) == IF a >= b THEN a - b ELSE 0

\* usize::wrapping_sub
wrapping_sub(a, b) == (a - b) % Modulus

\* a selection that is one position ahead
GatewayIndexAhead(counter, n) == (counter + 1) % n

\* index (from 0) that next_gateway selects when it observes `counter`
GatewayIndex(counter, n) == counter % n

\* a token read that does not step back to the counter value last observed
TokenIndexNoStepBack(counter, n) == counter % n

\* index (from 0) whose token current_gateway_token returns
TokenIndex(counter, n) == wrapping_sub(counter, 1) % n

\* Option<String>
Some(v) == [t |-> "some", v |-> v]

\* Result<Config, String>::Err
ErrMsg(e) == [ok |-> FALSE, e |-> e]

ApiKey(name, i) == "sk-" \o name \o "-" \o ToString(i)

\* ProviderConfig with k API keys
ProviderConfig(name, k) ==
  [api_keys |-> [i \in 1 .. k |-> ApiKey(name, i)], test_model |-> "m"]

\* the provider names of the model
ProviderNames == {"openai", "gemini"}

\* a map without entries
NoEntries == [name \in {} |-> None]

\* TomlConfig: the fields of config.toml that the rotation uses
TomlConfig(gs, ps) == [gateways |-> gs, providers |-> ps]

\* config.rs 110-117: a counter for every provider that has API keys
ProviderCounters(ps) ==
  [name \in {n \in DOMAIN ps : ps[n].api_keys # << >>} |-> 0]

\* a loader that accepts a configuration without gateways
from_toml_unchecked(t) ==
  IF ~t.ok
  THEN ErrMsg("Failed to parse TOML config: " \o t.e)
  ELSE Ok([gateways |-> t.v.gateways,
           providers |-> t.v.providers,
           gateway_counter |-> 0,
           provider_counters |-> ProviderCounters(t.v.providers)])

\* Config::from_toml on the parsed content of the file
from_toml(t) ==
  IF ~t.ok
  THEN ErrMsg("Failed to parse TOML config: " \o t.e)
  ELSE IF t.v.gateways = << >>
  THEN ErrMsg("At least one gateway configuration is required")
  ELSE Ok([gateways |-> t.v.gateways,
           providers |-> t.v.providers,
           gateway_counter |-> 0,
           provider_counters |-> ProviderCounters(t.v.providers)])

\* a key selection that never moves on
KeyIndexFirst(counter, k) == 0

\* index (from 0) that next_api_key selects when it observes `counter`
KeyIndex(counter, k) == counter % k

(***************************************************************************)
(* Headers.  A header map is a function from the names present to the      *)
(* non-empty sequence of their values.                                     *)
(***************************************************************************)
remove(h, name) == [n \in DOMAIN h \ {name} |-> h[n]]
\* an insert that keeps the values the name already has
append(h, name, value) ==
  [n \in DOMAIN h \cup {name} |->
     IF n = name
     THEN (IF name \in DOMAIN h THEN h[name] ELSE << >>) \o << value >>
     ELSE h[n]]

insert(h, name, value) ==
  [n \in DOMAIN h \cup {name} |-> IF n = name THEN << value >> ELSE h[n]]

RECURSIVE remove_all(_, _)
remove_all(h, names) ==
  IF names = <<>> THEN h ELSE remove_all(remove(h, Head(names)), Tail(names))

RequestHeadersRemoved ==
  << "host", "content-length", "connection", "keep-alive", "proxy-authenticate",
     "proxy-authorization", "te", "trailers", "transfer-encoding", "upgrade" >>

ResponseHeadersRemoved ==
  << "connection", "keep-alive", "proxy-authenticate", "proxy-authorization",
     "te", "trailers", "transfer-encoding", "upgrade" >>

\* HeaderValue parsing: control characters are rejected
parse_header_value(text) ==
  IF text = "Bearer " \o ControlCharToken THEN Err ELSE Ok(text)

InboundHeaders ==
  << ("content-type" :> << "application/json" >>)
       @@ ("authorization" :> << "Bearer sk-client" >>)
       @@ ("cf-aig-authorization" :> << "Bearer client-one" >>)
       @@ ("host" :> << "localhost:3000" >>)
       @@ ("content-length" :> << "27" >>),
     ("cf-aig-authorization" :> << "Bearer client-a", "Bearer client-b" >>)
       @@ ("connection" :> << "keep-alive" >>)
       @@ ("keep-alive" :> << "timeout=5" >>)
       @@ ("transfer-encoding" :> << "chunked" >>)
       @@ ("te" :> << "trailers" >>)
       @@ ("trailers" :> << "x-t" >>)
       @@ ("upgrade" :> << "h2c" >>)
       @@ ("proxy-authenticate" :> << "Basic" >>)
       @@ ("proxy-authorization" :> << "Basic abc" >>)
       @@ ("x-custom" :> << "1", "2" >>),
     << >> >>

UpstreamHeaders ==
  << ("content-type" :> << "application/json" >>)
       @@ ("content-length" :> << "120" >>),
     ("content-type" :> << "application/json" >>)
       @@ ("connection" :> << "close" >>)
       @@ ("keep-alive" :> << "timeout=5" >>)
       @@ ("transfer-encoding" :> << "chunked" >>)
       @@ ("te" :> << "trailers" >>)
       @@ ("trailers" :> << "x-t" >>)
       @@ ("upgrade" :> << "h2c" >>)
       @@ ("proxy-authenticate" :> << "Basic" >>)
       @@ ("proxy-authorization" :> << "Basic abc" >>)
       @@ ("host" :> << "gateway.ai.cloudflare.com" >>)
       @@ ("x-request-id" :> << "r1" >>) >>

Methods == << "POST", "GET" >>

\* path and query of inbound requests, as sequences of characters
Uris ==
  << << "/", "v", "1", "/", "c", "h", "a", "t" >>,
     << "/", "v", "1", "/", "e", "m", "b", "e", "d", "?", "n", "=", "1" >>,
     << "/", "c", "h", "a", "t" >> >>

\* path and query of the requests of the single-gateway program (main.rs)
MainUris ==
  << << "/", "v", "1", "/", "c", "h", "a", "t", "/", "c", "o", "m", "p", "l", "e", "t", "i", "o", "n", "s" >>,
     << "/", "c", "h", "a", "t", "/", "c", "o", "m", "p", "l", "e", "t", "i", "o", "n", "s" >>,
     << "/", "v", "1", "/", "v", "1", "/", "m", "o", "d", "e", "l", "s" >>,
     << "/", "v", "1", "b", "e", "t", "a", "/", "m", "o", "d", "e", "l", "s" >>,
     << "/", "v", "1" >>,
     << "/", "v", "1", "?", "n", "=", "1" >>,
     << "/", "v" >> >>

\* str::strip_prefix(prefix).unwrap_or(s)
strip_prefix_or(s, prefix) ==
  IF Len(s) >= Len(prefix) /\ SubSeq(s, 1, Len(prefix)) = prefix
  THEN SubSeq(s, Len(prefix) + 1, Len(s))
  ELSE s

\* main.rs 565: the path the single-gateway handler appends to its URL
cleaned_path(path_query) == strip_prefix_or(path_query, << "/", "v", "1" >>)
Statuses == << 200, 429, 502 >>
TransportErrors == << "connection reset", "operation timed out" >>

(***************************************************************************)
(* Stream synthesizer (stream.rs): the values the producer task computes.  *)
(***************************************************************************)

Chars_unknown == <<"u", "n", "k", "n", "o", "w", "n">>
Chars_chunk ==
  <<"c", "h", "a", "t", ".", "c", "o", "m", "p", "l", "e", "t", "i", "o", "n",
    ".", "c", "h", "u", "n", "k">>

\* Option::cloned().unwrap_or(default)
unwrap_or(v, default) == IF v = None THEN default ELSE v

\* format!("data: {}\n\n", payload)
sse_data(payload) == "data: " \o payload \o "\n\n"

DoneMarker == "data: [DONE]\n\n"

\* choices.first(): None when there is no choices array or it is empty
Choices(json_response) ==
  CHOOSE r \in {IF c # None /\ c.t = "arr" THEN c ELSE None :
                  c \in {Get(json_response, "choices")}} : TRUE

\* the last element instead of the first
last(arr) ==
  CHOOSE r \in {IF Len(x.a) = 0 THEN None ELSE x.a[Len(x.a)] : x \in {arr}} : TRUE

first(arr) ==
  CHOOSE r \in {IF Len(x.a) = 0 THEN None ELSE x.a[1] : x \in {arr}} : TRUE

\* first_choice.get("message").and_then(get("content")).and_then(as_str)
Content(first_choice) ==
  LET content(m) == IF m = None THEN None ELSE Get(m, "content")
  IN CHOOSE r \in {IF c # None /\ c.t = "str" THEN c.s ELSE None :
                     c \in {content(m) : m \in {Get(first_choice, "message")}}} : TRUE

\* a producer that treats an empty choices array like a document without
\* a choices array
BranchEmptyChoicesOpaque(response_bytes) ==
  LET taken(choices) ==
        IF choices = None THEN "opaque"
        ELSE IF first(choices) = None THEN "opaque"
        ELSE IF Content(first(choices)) = None THEN "single"
        ELSE "words"
      branch(parsed) ==
        IF ~parsed.ok
        THEN IF from_utf8(response_bytes).ok THEN "text" ELSE "done"
        ELSE CHOOSE r \in {taken(c) : c \in {Choices(parsed.v)}} : TRUE
  IN CHOOSE r \in {branch(parsed) : parsed \in {from_slice(response_bytes)}} : TRUE

\* the branch of the producer a response body takes (stream.rs 16-136)
Branch(response_bytes) ==
  LET taken(choices) ==
        IF choices = None THEN "opaque"
        ELSE IF first(choices) = None THEN "done"
        ELSE IF Content(first(choices)) = None THEN "single"
        ELSE "words"
      branch(parsed) ==
        IF ~parsed.ok
        THEN IF from_utf8(response_bytes).ok THEN "text" ELSE "done"
        ELSE CHOOSE r \in {taken(c) : c \in {Choices(parsed.v)}} : TRUE
  IN CHOOSE r \in {branch(parsed) : parsed \in {from_slice(response_bytes)}} : TRUE

Words(response_bytes) ==
  split_whitespace(Content(first(Choices(from_slice(response_bytes).v))))

\* a space after every word, the last one included
word_with_space_always(words, i) == words[i + 1] \o << " " >>

\* word followed by a space, except for the last word (stream.rs 44-48);
\* i counts from 0
word_with_space(words, i) ==
  IF i < Len(words) - 1 THEN words[i + 1] \o << " " >> ELSE words[i + 1]

\* the chunk that carries one piece of content (stream.rs 50-62)
DeltaChunk(json_response, content) ==
  JObj([id |-> unwrap_or(Get(json_response, "id"), JStr(Chars_unknown)),
        object |-> JStr(Chars_chunk),
        created |-> unwrap_or(Get(json_response, "created"), JNum(0)),
        model |-> unwrap_or(Get(json_response, "model"), JStr(Chars_unknown)),
        choices |-> JArr(<< JObj([index |-> JNum(0),
                                  delta |-> JObj([content |-> JStr(content)]),
                                  finish_reason |-> JNull]) >>)])

\* the chunk of word i (stream.rs 43-62)
WordChunk(json_response, words, i) ==
  DeltaChunk(json_response, word_with_space(words, i))

\* a final chunk whose finish_reason is always "stop" and that never has usage
FinalChunkPlain(json_response) ==
  JObj([id |-> unwrap_or(Get(json_response, "id"), JStr(Chars_unknown)),
        object |-> JStr(Chars_chunk),
        created |-> unwrap_or(Get(json_response, "created"), JNum(0)),
        model |-> unwrap_or(Get(json_response, "model"), JStr(Chars_unknown)),
        choices |-> JArr(<< JObj([index |-> JNum(0),
                                  delta |-> JObj(<< >>),
                                  finish_reason |-> JStr(Chars_stop)]) >>)])

\* the final chunk (stream.rs 77-92)
FinalChunk(json_response) ==
  LET first_choice == first(Choices(json_response))
      base ==
        [id |-> unwrap_or(Get(json_response, "id"), JStr(Chars_unknown)),
         object |-> JStr(Chars_chunk),
         created |-> unwrap_or(Get(json_response, "created"), JNum(0)),
         model |-> unwrap_or(Get(json_response, "model"), JStr(Chars_unknown)),
         choices |-> JArr(<< JObj([index |-> JNum(0),
                                   delta |-> JObj(<< >>),
                                   finish_reason |->
                                     unwrap_or(Get(first_choice, "finish_reason"),
                                               JStr(Chars_stop))]) >>)]
      usage == Get(json_response, "usage")
  IN IF usage = None THEN JObj(base) ELSE JObj(base @@ ("usage" :> usage))

\* a chunk that carries every choice of the source
ChoiceChunkAllChoices(json_response) ==
  JObj([choices |-> Choices(json_response),
        created |-> unwrap_or(Get(json_response, "created"), JNum(0)),
        id |-> unwrap_or(Get(json_response, "id"), JStr(Chars_unknown)),
        model |-> unwrap_or(Get(json_response, "model"), JStr(Chars_unknown)),
        object |-> JStr(Chars_chunk)])

\* the chunk that carries the first choice as it is (stream.rs 103-109)
ChoiceChunk(json_response) ==
  JObj([choices |-> JArr(<< first(Choices(json_response)) >>),
        created |-> unwrap_or(Get(json_response, "created"), JNum(0)),
        id |-> unwrap_or(Get(json_response, "id"), JStr(Chars_unknown)),
        model |-> unwrap_or(Get(json_response, "model"), JStr(Chars_unknown)),
        object |-> JStr(Chars_chunk)])

SseHeaders ==
  ("content-type" :> << "text/event-stream" >>)
    @@ ("cache-control" :> << "no-cache" >>)
    @@ ("connection" :> << "keep-alive" >>)

(***************************************************************************)
(* State.                                                                  *)
(***************************************************************************)
VARIABLES
  toml,             \* the parsed content of config.toml
  loaded,           \* what Config::from_toml returned, None before the call
  providers,        \* Config.providers
  provider_counters,\* Config.provider_counters
  issued,           \* history: what next_api_key returned, per provider name
  state,            \* the AppState clone each task's request holds, None without one
  copies,           \* counter cells that were allocated by cloning a Config
  gateways,         \* Config.gateways
  gateway_counter,  \* Config.gateway_counter
  pc,               \* position of each task
  req,              \* the inbound request of each task's proxy_handler
  local,            \* the local variables of each task's proxy_handler
  outbound,         \* the upstream requests each task has sent
  result,           \* what proxy_handler returned to the client
  ret,              \* return value of the last direct Config call
  sse,              \* producer task of each task's synthesized stream
  chan,             \* frames in the channel of each stream
  rx,               \* consumer of each stream (the response body)
  selected          \* history: the selections next_gateway made, in order

config_vars == << toml, loaded, providers, provider_counters, issued, state, copies >>

vars ==
  << config_vars, gateways, gateway_counter, pc, req, local, outbound, result, ret, sse,
     chan, rx, selected >>

NoLocals ==
  [target_url |-> None, gateway_token |-> None, token_at |-> 0,
   body_bytes |-> None, modified_body |-> None, was_stream_request |-> FALSE,
   status |-> None, response_headers |-> None, bytes |-> None,
   failure |-> None]

NoStream == [pc |-> "none", i |-> 0, response_bytes |-> None, words |-> << >>]
NoConsumer == [state |-> "none", received |-> << >>]

\* the tasks before any request
IdleTasks ==
  /\ state = [p \in Tasks |-> None]
  /\ copies = << >>
  /\ pc = [p \in Tasks |-> "idle"]
  /\ req = [p \in Tasks |-> None]
  /\ local = [p \in Tasks |-> NoLocals]
  /\ outbound = [p \in Tasks |-> << >>]
  /\ result = [p \in Tasks |-> None]
  /\ ret = None
  /\ sse = [p \in Tasks |-> NoStream]
  /\ chan = [p \in Tasks |-> << >>]
  /\ rx = [p \in Tasks |-> NoConsumer]
  /\ selected = << >>

\* the state of the tasks before any request, on a new Config
Idle == gateway_counter = 0 /\ IdleTasks

\* the Config that from_toml built from the file
Built ==
  LET r == from_toml(toml)
  IN /\ r.ok
     /\ loaded = Ok("Config")
     /\ gateways = r.v.gateways
     /\ providers = r.v.providers
     /\ provider_counters = r.v.provider_counters
     /\ issued = [name \in ProviderNames |-> << >>]

\* Config::from_toml with 1 .. MaxGateways gateways
Init ==
  /\ \E n \in 1 .. MaxGateways :
       toml = Ok(TomlConfig([i \in 1 .. n |-> Gateway(i)], NoEntries))
  /\ Built
  /\ Idle

\* Config::from_toml with 1 .. MaxGateways gateways, the last of which may
\* have a token that is not a legal header value
InitAnyToken ==
  /\ \E n \in 1 .. MaxGateways, bad \in BOOLEAN :
       toml = Ok(TomlConfig([i \in 1 .. n |->
                               IF bad /\ i = n THEN GatewayWithControlChar(i)
                               ELSE Gateway(i)],
                            NoEntries))
  /\ Built
  /\ Idle

\* a Config whose gateway counter is within MaxCalls selections of its
\* largest value, 2^w - 1: the selections recorded from here on are the ones
\* around the overflow of fetch_add
InitWrap ==
  /\ \E n \in 1 .. MaxGateways :
       toml = Ok(TomlConfig([i \in 1 .. n |-> Gateway(i)], NoEntries))
  /\ Built
  /\ gateway_counter \in Modulus - MaxCalls + 1 .. Modulus - 1
  /\ IdleTasks

\* what reading and parsing config.toml can yield: a parse failure, or a
\* configuration with 0 .. MaxGateways gateways in which each provider name
\* is absent or has 0 .. MaxKeys API keys
TomlFiles ==
  {ErrMsg("missing field gateways")}
    \cup {Ok(TomlConfig([i \in 1 .. n |-> Gateway(i)],
                        [name \in S |-> ProviderConfig(name, k[name])])) :
            n \in 0 .. MaxGateways,
            S \in SUBSET ProviderNames,
            k \in [ProviderNames -> 0 .. MaxKeys]}

\* the program before Config::from_toml is called: no Config exists
InitFile ==
  /\ toml \in TomlFiles
  /\ loaded = None
  /\ gateways = << >>
  /\ providers = NoEntries
  /\ provider_counters = NoEntries
  /\ issued = [name \in ProviderNames |-> << >>]
  /\ Idle

\* a Config was constructed
ConfigExists == loaded # None /\ loaded.ok

\* Config::from_toml (config.rs 87-140)
FromToml ==
  /\ loaded = None
  /\ LET r == from_toml(toml)
     IN IF r.ok
        THEN /\ loaded' = Ok("Config")
             /\ gateways' = r.v.gateways
             /\ providers' = r.v.providers
             /\ gateway_counter' = r.v.gateway_counter
             /\ provider_counters' = r.v.provider_counters
        ELSE /\ loaded' = r
             /\ UNCHANGED << gateways, providers, gateway_counter, provider_counters >>
  /\ UNCHANGED << toml, issued, state, copies, pc, req, local, outbound, result, ret, sse, chan,
                  rx, selected >>

(***************************************************************************)
(* Config operations (config.rs 142-171).                                  *)
(***************************************************************************)
\* the value next_api_key returns when it observes the current counter
NextApiKeyValue(provider) ==
  IF provider \notin DOMAIN providers
  THEN None
  ELSE IF providers[provider].api_keys = << >>
  THEN None
  ELSE IF provider \notin DOMAIN provider_counters
  THEN None
  ELSE Some(providers[provider].api_keys[
              KeyIndex(provider_counters[provider],
                       Len(providers[provider].api_keys)) + 1])

\* the effect of next_api_key
next_api_key(provider) ==
  /\ Len(issued[provider]) < MaxCalls
  /\ provider_counters' =
       IF NextApiKeyValue(provider) = None
       THEN provider_counters
       ELSE [provider_counters EXCEPT ![provider] = fetch_add(@)]
  /\ issued' = [issued EXCEPT ![provider] = Append(@, NextApiKeyValue(provider))]

\* a key selection that takes its turn from the gateway counter
CallNextApiKeySharedCounter(p, provider) ==
  /\ pc[p] = "idle"
  /\ ConfigExists
  /\ Len(issued[provider]) < MaxCalls
  /\ gateway_counter' = fetch_add(gateway_counter)
  /\ issued' = [issued EXCEPT ![provider] = Append(@, NextApiKeyValue(provider))]
  /\ ret' = [op |-> "next_api_key", provider |-> provider,
             key |-> NextApiKeyValue(provider)]
  /\ UNCHANGED << toml, loaded, providers, provider_counters, state, copies, gateways, pc, req,
                  local, outbound, result, sse, chan, rx, selected >>

\* a task calls next_api_key directly
CallNextApiKey(p, provider) ==
  /\ pc[p] = "idle"
  /\ ConfigExists
  /\ next_api_key(provider)
  /\ ret' = [op |-> "next_api_key", provider |-> provider,
             key |-> NextApiKeyValue(provider)]
  /\ UNCHANGED << toml, loaded, providers, state, copies, gateways, gateway_counter, pc, req,
                  local, outbound, result, sse, chan, rx, selected >>

\* the gateway next_gateway returns when it observes the current counter
NextGatewayValue == gateways[GatewayIndex(gateway_counter, Len(gateways)) + 1]

\* the effect of next_gateway
next_gateway ==
  /\ Len(selected) < MaxCalls
  /\ gateway_counter' = fetch_add(gateway_counter)
  /\ selected' = Append(selected, [value |-> gateway_counter,
                                   gateway |-> NextGatewayValue])

\* the value current_gateway_token returns
current_gateway_token == gateways[TokenIndex(gateway_counter, Len(gateways)) + 1].token

\* a task calls next_gateway directly
CallNextGateway(p) ==
  /\ pc[p] = "idle"
  /\ ConfigExists
  /\ next_gateway
  /\ ret' = [op |-> "next_gateway", gateway |-> NextGatewayValue]
  /\ UNCHANGED << config_vars, gateways, pc, req, local, outbound, result, sse, chan, rx >>

\* a task calls current_gateway_token directly
CallCurrentGatewayToken(p) ==
  /\ pc[p] = "idle"
  /\ ConfigExists
  /\ ret' = [op |-> "current_gateway_token", token |-> current_gateway_token,
             at |-> Len(selected)]
  /\ UNCHANGED << config_vars, gateways, gateway_counter, pc, req, local, outbound, result,
                  sse, chan, rx, selected >>

(***************************************************************************)
(* Clones of the Config (config.rs 69-83).  The counter fields are Arcs: a *)
(* field of a Config holds the address of a counter cell.  Address 0 is    *)
(* the cell that from_toml allocated for the field (gateway_counter, or    *)
(* provider_counters[name]); address k >= 1 is copies[k].                  *)
(***************************************************************************)
\* the Config that from_toml returned
Original ==
  [gateway_counter |-> 0,
   provider_counters |-> [name \in DOMAIN provider_counters |-> 0]]

\* the value of the cell at an address
Load(address, original) == IF address = 0 THEN original ELSE copies[address]

\* a clone that allocates new cells with the current values of the counters
clone_by_value(config) ==
  [handle |->
     [gateway_counter |-> Len(copies) + 1,
      provider_counters |->
        [name \in DOMAIN config.provider_counters |->
           IF name = "openai" THEN Len(copies) + 2 ELSE Len(copies) + 3]],
   allocated |->
     << Load(config.gateway_counter, gateway_counter) >>
       \o [i \in 1 .. 2 |->
            LET name == IF i = 1 THEN "openai" ELSE "gemini"
            IN IF name \in DOMAIN config.provider_counters
               THEN Load(config.provider_counters[name], provider_counters[name])
               ELSE 0]]

\* #[derive(Clone)] on Config: Arc::clone copies the address of each counter
\* and allocates nothing; the HashMap of provider counters is copied with
\* the same addresses as values
clone(config) == [handle |-> config, allocated |-> << >>]

\* the State extractor clones the AppState for the request of task p
\* (proxy.rs 36-47)
CloneAppState(p) ==
  /\ pc[p] = "idle"
  /\ ConfigExists
  /\ state[p] = None
  /\ state' = [state EXCEPT ![p] = clone(Original).handle]
  /\ copies' = copies \o clone(Original).allocated
  /\ UNCHANGED << toml, loaded, providers, provider_counters, issued, gateways,
                  gateway_counter, pc, req, local, outbound, result, ret, sse, chan, rx,
                  selected >>

\* the request ends and its AppState clone is dropped
DropAppState(p) ==
  /\ state[p] # None
  /\ state' = [state EXCEPT ![p] = None]
  /\ UNCHANGED << toml, loaded, providers, provider_counters, issued, copies, gateways,
                  gateway_counter, pc, req, local, outbound, result, ret, sse, chan, rx,
                  selected >>

\* state.config.next_gateway() (config.rs 143-146) through the clone of task p
StateNextGateway(p) ==
  /\ state[p] # None
  /\ Len(selected) < MaxCalls
  /\ LET address == state[p].gateway_counter
         counter == Load(address, gateway_counter)
         gateway == gateways[GatewayIndex(counter, Len(gateways)) + 1]
     IN /\ IF address = 0
           THEN gateway_counter' = fetch_add(gateway_counter) /\ UNCHANGED copies
           ELSE /\ copies' = [copies EXCEPT ![address] = fetch_add(@)]
                /\ UNCHANGED gateway_counter
        /\ selected' = Append(selected, [value |-> counter, gateway |-> gateway])
        /\ ret' = [op |-> "next_gateway", gateway |-> gateway]
  /\ UNCHANGED << toml, loaded, providers, provider_counters, issued, state, gateways,
                  pc, req, local, outbound, result, sse, chan, rx >>

\* state.config.current_gateway_token() (config.rs 167-171) through the clone
StateCurrentGatewayToken(p) ==
  /\ state[p] # None
  /\ LET counter == Load(state[p].gateway_counter, gateway_counter)
     IN ret' = [op |-> "current_gateway_token",
                token |-> gateways[TokenIndex(counter, Len(gateways)) + 1].token,
                at |-> Len(selected)]
  /\ UNCHANGED << config_vars, gateways, gateway_counter, pc, req, local, outbound, result,
                  sse, chan, rx, selected >>

\* state.config.next_api_key(provider) (config.rs 149-158) through the clone
StateNextApiKey(p, provider) ==
  /\ state[p] # None
  /\ Len(issued[provider]) < MaxCalls
  /\ IF \/ provider \notin DOMAIN providers
        \/ providers[provider].api_keys = << >>
        \/ provider \notin DOMAIN state[p].provider_counters
     THEN /\ issued' = [issued EXCEPT ![provider] = Append(@, None)]
          /\ ret' = [op |-> "next_api_key", provider |-> provider, key |-> None]
          /\ UNCHANGED << provider_counters, copies >>
     ELSE LET address == state[p].provider_counters[provider]
              counter == Load(address, provider_counters[provider])
              api_keys == providers[provider].api_keys
              key == Some(api_keys[KeyIndex(counter, Len(api_keys)) + 1])
          IN /\ IF address = 0
                THEN /\ provider_counters' =
                          [provider_counters EXCEPT ![provider] = fetch_add(@)]
                     /\ UNCHANGED copies
                ELSE /\ copies' = [copies EXCEPT ![address] = fetch_add(@)]
                     /\ UNCHANGED provider_counters
             /\ issued' = [issued EXCEPT ![provider] = Append(@, key)]
             /\ ret' = [op |-> "next_api_key", provider |-> provider, key |-> key]
  /\ UNCHANGED << toml, loaded, providers, state, gateways, gateway_counter, pc, req,
                  local, outbound, result, sse, chan, rx, selected >>

(***************************************************************************)
(* proxy_handler (proxy.rs 44-180).                                        *)
(***************************************************************************)
\* an error response that does not carry the message
into_response_without_text(kind, msg) ==
  [error |-> kind,
   status |-> IF kind = "BadRequest" THEN 400 ELSE 502,
   headers |-> ("content-type" :> << "text/plain; charset=utf-8" >>),
   body |-> [stream |-> FALSE, bytes |-> Bytes(kind)]]

\* ProxyError::into_response
into_response(kind, msg) ==
  [error |-> kind,
   status |-> IF kind = "BadRequest" THEN 400 ELSE 502,
   headers |-> ("content-type" :> << "text/plain; charset=utf-8" >>),
   body |-> [stream |-> FALSE, bytes |-> Bytes(msg)]]

\* proxy.rs 48-53: the request arrives and next_target_url selects a gateway
HandlerNextTargetUrl(p, methods, uris, headerSets, bodies) ==
  /\ pc[p] = "idle"
  /\ next_gateway
  /\ \E m \in 1 .. Len(methods), u \in 1 .. Len(uris),
        h \in 1 .. Len(headerSets), b \in 1 .. Len(bodies) :
       req' = [req EXCEPT ![p] = [method |-> methods[m], uri |-> uris[u],
                                  headers |-> headerSets[h],
                                  body |-> bodies[b]]]
  /\ local' = [local EXCEPT ![p].target_url =
                 base_url(NextGatewayValue) \o openai_compat_path]
  /\ pc' = [pc EXCEPT ![p] = "token"]
  /\ UNCHANGED << config_vars, gateways, outbound, result, ret, sse, chan, rx >>

\* proxy.rs 54
HandlerCurrentGatewayToken(p) ==
  /\ pc[p] = "token"
  /\ local' = [local EXCEPT ![p].gateway_token = current_gateway_token,
                            ![p].token_at = Len(selected)]
  /\ pc' = [pc EXCEPT ![p] = "read_body"]
  /\ UNCHANGED << config_vars, gateways, gateway_counter, req, outbound, result, ret, sse,
                  chan, rx, selected >>

\* a body read whose failure is ignored: the request goes on with an empty body
ReadBodyIgnoresFailure(p, errors) ==
  /\ pc[p] = "read_body"
  /\ \/ local' = [local EXCEPT ![p].body_bytes = req[p].body]
     \/ \E e \in 1 .. Len(errors) :
          local' = [local EXCEPT ![p].body_bytes = Bytes(""),
                                 ![p].failure = [at |-> "read_body", e |-> errors[e]]]
  /\ pc' = [pc EXCEPT ![p] = "forward"]
  /\ UNCHANGED << config_vars, gateways, gateway_counter, req, outbound, result, ret,
                  sse, chan, rx, selected >>

\* proxy.rs 70-75
ReadBody(p, errors) ==
  /\ pc[p] = "read_body"
  /\ \/ /\ local' = [local EXCEPT ![p].body_bytes = req[p].body]
        /\ pc' = [pc EXCEPT ![p] = "forward"]
        /\ UNCHANGED result
     \/ \E e \in 1 .. Len(errors) :
          /\ result' = [result EXCEPT ![p] =
               into_response("BadRequest",
                             "Failed to read request body: " \o errors[e])]
          /\ pc' = [pc EXCEPT ![p] = "done"]
          /\ local' = [local EXCEPT ![p].failure =
                         [at |-> "read_body", e |-> errors[e]]]
  /\ UNCHANGED << config_vars, gateways, gateway_counter, req, outbound, ret, sse, chan, rx,
                  selected >>

\* a rewrite that leaves the stream field as it was
SetStreamKept(json_body) == json_body

\* proxy.rs 87: json_body["stream"] = json!(false)
SetStreamFalse(json_body) == JObj(("stream" :> JBool(FALSE)) @@ json_body.o)

\* a rewrite that serializes the parsed body again whenever it is JSON
RewriteBodyReserialized(body_bytes) ==
  LET parsed == from_slice(body_bytes)
      stream == IF parsed.ok THEN Get(parsed.v, "stream") ELSE None
      was_stream == stream # None /\ stream.t = "bool" /\ stream.b
  IN IF was_stream
     THEN << Bytes(to_string(SetStreamFalse(parsed.v))), TRUE >>
     ELSE IF parsed.ok THEN << Bytes(to_string(parsed.v)), FALSE >>
     ELSE << body_bytes, FALSE >>

\* a rewrite that takes every stream value other than false as a stream request
RewriteBodyTruthy(body_bytes) ==
  LET parsed == from_slice(body_bytes)
      stream == IF parsed.ok THEN Get(parsed.v, "stream") ELSE None
      was_stream == stream # None /\ stream # JBool(FALSE)
  IN IF was_stream
     THEN << Bytes(to_string(SetStreamFalse(parsed.v))), TRUE >>
     ELSE << body_bytes, FALSE >>

\* proxy.rs 78-98: << modified_body, was_stream_request >>
RewriteBody(body_bytes) ==
  LET parsed == from_slice(body_bytes)
      stream == IF parsed.ok THEN Get(parsed.v, "stream") ELSE None
      was_stream == stream # None /\ stream.t = "bool" /\ stream.b
  IN IF was_stream
     THEN << Bytes(to_string(SetStreamFalse(parsed.v))), TRUE >>
     ELSE << body_bytes, FALSE >>

\* a filter that leaves the client's host header in place
FilterRequestHeadersKeepsHost(headers) ==
  remove_all(headers, Tail(RequestHeadersRemoved))

\* proxy.rs 102-112
FilterRequestHeaders(headers) == remove_all(headers, RequestHeadersRemoved)

\* proxy.rs 77-134: the body is rewritten, the headers are filtered, the
\* gateway token is set and the request is handed to the client
Forward(p) ==
  /\ pc[p] = "forward"
  /\ LET rewritten == RewriteBody(local[p].body_bytes)
         token_value == parse_header_value("Bearer " \o local[p].gateway_token)
     IN /\ local' = [local EXCEPT ![p].modified_body = rewritten[1],
                                  ![p].was_stream_request = rewritten[2]]
        /\ IF token_value.ok
           THEN /\ outbound' = [outbound EXCEPT ![p] = Append(@,
                      [method |-> req[p].method,
                       url |-> local[p].target_url,
                       headers |-> insert(FilterRequestHeaders(req[p].headers),
                                          "cf-aig-authorization", token_value.v),
                       body |-> rewritten[1]])]
                /\ pc' = [pc EXCEPT ![p] = "sending"]
                /\ UNCHANGED result
           ELSE /\ result' = [result EXCEPT ![p] =
                      into_response("BadRequest", "Invalid gateway token format")]
                /\ pc' = [pc EXCEPT ![p] = "done"]
                /\ UNCHANGED outbound
  /\ UNCHANGED << config_vars, gateways, gateway_counter, req, ret, sse, chan, rx, selected >>

\* a send that tries a second time when the transport fails
SendRetries(p, statuses, headerSets, errors) ==
  /\ pc[p] = "sending"
  /\ \/ \E s \in 1 .. Len(statuses), h \in 1 .. Len(headerSets) :
          /\ local' = [local EXCEPT ![p].status = statuses[s],
                                    ![p].response_headers = headerSets[h]]
          /\ pc' = [pc EXCEPT ![p] = "reading"]
          /\ UNCHANGED << result, outbound >>
     \/ \E e \in 1 .. Len(errors) :
          IF Len(outbound[p]) = 1
          THEN /\ outbound' = [outbound EXCEPT ![p] = Append(@, @[1])]
               /\ UNCHANGED << local, pc, result >>
          ELSE /\ result' = [result EXCEPT ![p] =
                    into_response("BadGateway",
                                  "Failed to forward request to target: " \o errors[e])]
               /\ pc' = [pc EXCEPT ![p] = "done"]
               /\ local' = [local EXCEPT ![p].failure =
                              [at |-> "send", e |-> errors[e]]]
               /\ UNCHANGED outbound
  /\ UNCHANGED << config_vars, gateways, gateway_counter, req, ret, sse, chan, rx,
                  selected >>

\* proxy.rs 135-146: the upstream answers with a status and headers, or the
\* transport fails
Send(p, statuses, headerSets, errors) ==
  /\ pc[p] = "sending"
  /\ \/ \E s \in 1 .. Len(statuses), h \in 1 .. Len(headerSets) :
          /\ local' = [local EXCEPT ![p].status = statuses[s],
                                    ![p].response_headers = headerSets[h]]
          /\ pc' = [pc EXCEPT ![p] = "reading"]
          /\ UNCHANGED result
     \/ \E e \in 1 .. Len(errors) :
          /\ result' = [result EXCEPT ![p] =
               into_response("BadGateway",
                             "Failed to forward request to target: " \o errors[e])]
          /\ pc' = [pc EXCEPT ![p] = "done"]
          /\ local' = [local EXCEPT ![p].failure =
                         [at |-> "send", e |-> errors[e]]]
  /\ UNCHANGED << config_vars, gateways, gateway_counter, req, outbound, ret, sse, chan, rx,
                  selected >>

\* a filter that leaves the upstream's connection header in place
FilterResponseHeadersKeepsConnection(headers) ==
  remove_all(headers, Tail(ResponseHeadersRemoved))

\* a stream response that keeps the status of a new response, 200
convert_to_sse_stream_status_ok(status, response_bytes) ==
  [error |-> "", status |-> 200, headers |-> SseHeaders, body |-> [stream |-> TRUE]]

\* stream.rs 143-158: the response convert_to_sse_stream returns; its body is
\* the stream that the producer task feeds
convert_to_sse_stream(status, response_bytes) ==
  [error |-> "", status |-> status, headers |-> SseHeaders, body |-> [stream |-> TRUE]]

\* a response filter that removes the names removed from outbound requests
FilterResponseHeadersLikeRequests(headers) ==
  remove_all(headers, RequestHeadersRemoved)

\* proxy.rs 164-173
FilterResponseHeaders(headers) == remove_all(headers, ResponseHeadersRemoved)

\* a handler that adds the upstream response headers to the headers of a
\* synthesized stream
ReadResponseKeepsUpstreamHeaders(p, bodies, errors) ==
  /\ pc[p] = "reading"
  /\ \/ \E b \in 1 .. Len(bodies) :
          /\ local' = [local EXCEPT ![p].bytes = bodies[b]]
          /\ IF local[p].was_stream_request
             THEN /\ result' = [result EXCEPT ![p] =
                       [convert_to_sse_stream(local[p].status, bodies[b])
                          EXCEPT !.headers =
                            @ @@ FilterResponseHeaders(local[p].response_headers)]]
                  /\ sse' = [sse EXCEPT ![p] =
                       [pc |-> "spawned", i |-> 0, response_bytes |-> bodies[b],
                        words |-> << >>]]
                  /\ rx' = [rx EXCEPT ![p] = [state |-> "open", received |-> << >>]]
             ELSE /\ result' = [result EXCEPT ![p] =
                       [error |-> "", status |-> local[p].status,
                        headers |-> FilterResponseHeaders(local[p].response_headers),
                        body |-> [stream |-> FALSE, bytes |-> bodies[b]]]]
                  /\ UNCHANGED << sse, rx >>
     \/ \E e \in 1 .. Len(errors) :
          /\ result' = [result EXCEPT ![p] =
               into_response("BadGateway",
                             "Failed to read response body: " \o errors[e])]
          /\ local' = [local EXCEPT ![p].failure =
                         [at |-> "read_response", e |-> errors[e]]]
          /\ UNCHANGED << sse, rx >>
  /\ pc' = [pc EXCEPT ![p] = "done"]
  /\ UNCHANGED << config_vars, gateways, gateway_counter, req, outbound, ret, chan, selected >>

\* proxy.rs 148-179: the response body is read; the response is either
\* handed to convert_to_sse_stream (stream.rs 11-14, 143-158), which spawns
\* the producer task, or returned as it is
ReadResponse(p, bodies, errors) ==
  /\ pc[p] = "reading"
  /\ \/ \E b \in 1 .. Len(bodies) :
          /\ local' = [local EXCEPT ![p].bytes = bodies[b]]
          /\ IF local[p].was_stream_request
             THEN /\ result' = [result EXCEPT ![p] =
                       convert_to_sse_stream(local[p].status, bodies[b])]
                  /\ sse' = [sse EXCEPT ![p] =
                       [pc |-> "spawned", i |-> 0, response_bytes |-> bodies[b],
                        words |-> << >>]]
                  /\ rx' = [rx EXCEPT ![p] = [state |-> "open", received |-> << >>]]
             ELSE /\ result' = [result EXCEPT ![p] =
                       [error |-> "", status |-> local[p].status,
                        headers |-> FilterResponseHeaders(local[p].response_headers),
                        body |-> [stream |-> FALSE, bytes |-> bodies[b]]]]
                  /\ UNCHANGED << sse, rx >>
     \/ \E e \in 1 .. Len(errors) :
          /\ result' = [result EXCEPT ![p] =
               into_response("BadGateway",
                             "Failed to read response body: " \o errors[e])]
          /\ local' = [local EXCEPT ![p].failure =
                         [at |-> "read_response", e |-> errors[e]]]
          /\ UNCHANGED << sse, rx >>
  /\ pc' = [pc EXCEPT ![p] = "done"]
  /\ UNCHANGED << config_vars, gateways, gateway_counter, req, outbound, ret, chan, selected >>

(***************************************************************************)
(* The producer task of a synthesized stream (stream.rs 14-141) and the    *)
(* consumer of the response body.                                          *)
(***************************************************************************)
\* stream.rs 16-40: the body is parsed, the branch is taken and the content
\* is split into words once (stream.rs 39)
SseParse(p) ==
  /\ sse[p].pc = "spawned"
  /\ \E branch \in {Branch(sse[p].response_bytes)} :
       \E words \in {IF branch = "words" THEN Words(sse[p].response_bytes) ELSE << >>} :
         sse' = [sse EXCEPT ![p].words = words,
                            ![p].pc = IF branch = "words" /\ Len(words) = 0
                                      THEN "final" ELSE branch]
  /\ UNCHANGED << config_vars, gateways, gateway_counter, pc, req, local, outbound, result,
                  ret, chan, rx, selected >>

\* tx.send(frame).await: waits while the channel is full, fails when the
\* receiver is gone
CanSend(p) == rx[p].state # "open" \/ Len(chan[p]) < ChannelCapacity

\* a send that succeeds although the receiver is gone
SentAfterDrop(p, frame) ==
  chan' = [chan EXCEPT ![p] = Append(@, frame)]

Sent(p, frame) ==
  chan' = [chan EXCEPT ![p] = IF rx[p].state = "open" THEN Append(@, frame) ELSE @]

\* stream.rs 43-70: the frame of word i is sent; a failed send ends the task
SseSendWord(p) ==
  /\ sse[p].pc = "words"
  /\ CanSend(p)
  /\ LET json_response == from_slice(sse[p].response_bytes).v
     IN Sent(p, sse_data(to_string(WordChunk(json_response, sse[p].words, sse[p].i))))
  /\ sse' = [sse EXCEPT ![p].pc = IF rx[p].state = "open" THEN "sleep" ELSE "end"]
  /\ UNCHANGED << config_vars, gateways, gateway_counter, pc, req, local, outbound, result,
                  ret, rx, selected >>

\* a pacing step that goes from the last word straight to the [DONE] marker
SsePaceSkipsFinal(p) ==
  /\ sse[p].pc = "sleep"
  /\ sse' = [sse EXCEPT ![p].i = @ + 1,
                        ![p].pc = IF sse[p].i + 1 < Len(sse[p].words)
                                  THEN "words" ELSE "done"]
  /\ UNCHANGED << config_vars, gateways, gateway_counter, pc, req, local, outbound, result,
                  ret, chan, rx, selected >>

\* stream.rs 72-74: the pacing delay, then the next word or the final chunk
SsePace(p) ==
  /\ sse[p].pc = "sleep"
  /\ sse' = [sse EXCEPT ![p].i = @ + 1,
                        ![p].pc = IF sse[p].i + 1 < Len(sse[p].words)
                                  THEN "words" ELSE "final"]
  /\ UNCHANGED << config_vars, gateways, gateway_counter, pc, req, local, outbound, result,
                  ret, chan, rx, selected >>

\* stream.rs 76-99
SseSendFinal(p) ==
  /\ sse[p].pc = "final"
  /\ CanSend(p)
  /\ Sent(p, sse_data(to_string(FinalChunk(from_slice(sse[p].response_bytes).v))))
  /\ sse' = [sse EXCEPT ![p].pc = "done"]
  /\ UNCHANGED << config_vars, gateways, gateway_counter, pc, req, local, outbound, result,
                  ret, rx, selected >>

\* stream.rs 100-115
SseSendChoice(p) ==
  /\ sse[p].pc = "single"
  /\ CanSend(p)
  /\ Sent(p, sse_data(to_string(ChoiceChunk(from_slice(sse[p].response_bytes).v))))
  /\ sse' = [sse EXCEPT ![p].pc = "done"]
  /\ UNCHANGED << config_vars, gateways, gateway_counter, pc, req, local, outbound, result,
                  ret, rx, selected >>

\* a producer that sends no frame for a document without a choices array
SseSendOpaqueSkipped(p) ==
  /\ sse[p].pc = "opaque"
  /\ sse' = [sse EXCEPT ![p].pc = "done"]
  /\ UNCHANGED << config_vars, gateways, gateway_counter, pc, req, local, outbound, result,
                  ret, chan, rx, selected >>

\* stream.rs 119-127
SseSendOpaque(p) ==
  /\ sse[p].pc = "opaque"
  /\ CanSend(p)
  /\ Sent(p, sse_data(to_string(from_slice(sse[p].response_bytes).v)))
  /\ sse' = [sse EXCEPT ![p].pc = "done"]
  /\ UNCHANGED << config_vars, gateways, gateway_counter, pc, req, local, outbound, result,
                  ret, rx, selected >>

\* stream.rs 128-135
SseSendText(p) ==
  /\ sse[p].pc = "text"
  /\ CanSend(p)
  /\ Sent(p, sse_data(from_utf8(sse[p].response_bytes).v))
  /\ sse' = [sse EXCEPT ![p].pc = "done"]
  /\ UNCHANGED << config_vars, gateways, gateway_counter, pc, req, local, outbound, result,
                  ret, rx, selected >>

\* a task that sends the [DONE] marker and then parks, keeping the sender
SseSendDoneKeepsSender(p) ==
  /\ sse[p].pc = "done"
  /\ CanSend(p)
  /\ Sent(p, DoneMarker)
  /\ sse' = [sse EXCEPT ![p].pc = "parked"]
  /\ UNCHANGED << config_vars, gateways, gateway_counter, pc, req, local, outbound, result,
                  ret, rx, selected >>

\* stream.rs 138-141: the [DONE] marker is sent and the task ends, which
\* drops the sender
SseSendDone(p) ==
  /\ sse[p].pc = "done"
  /\ CanSend(p)
  /\ Sent(p, DoneMarker)
  /\ sse' = [sse EXCEPT ![p].pc = "end"]
  /\ UNCHANGED << config_vars, gateways, gateway_counter, pc, req, local, outbound, result,
                  ret, rx, selected >>

\* a response body that delivers the newest frame of the channel first
RecvNewest(p) ==
  /\ rx[p].state = "open"
  /\ chan[p] # << >>
  /\ rx' = [rx EXCEPT ![p].received = Append(@, chan[p][Len(chan[p])])]
  /\ chan' = [chan EXCEPT ![p] = SubSeq(@, 1, Len(@) - 1)]
  /\ UNCHANGED << config_vars, gateways, gateway_counter, pc, req, local, outbound, result,
                  ret, sse, selected >>

\* the response body delivers the next frame to the client
Recv(p) ==
  /\ rx[p].state = "open"
  /\ chan[p] # << >>
  /\ rx' = [rx EXCEPT ![p].received = Append(@, Head(chan[p]))]
  /\ chan' = [chan EXCEPT ![p] = Tail(@)]
  /\ UNCHANGED << config_vars, gateways, gateway_counter, pc, req, local, outbound, result,
                  ret, sse, selected >>

\* the channel is empty and the sender is dropped: the body ends
RecvEnd(p) ==
  /\ rx[p].state = "open"
  /\ chan[p] = << >>
  /\ sse[p].pc = "end"
  /\ rx' = [rx EXCEPT ![p].state = "ended"]
  /\ UNCHANGED << config_vars, gateways, gateway_counter, pc, req, local, outbound, result,
                  ret, sse, chan, selected >>

\* the client disconnects: the receiver and the frames it holds are dropped
Disconnect(p) ==
  /\ rx[p].state = "open"
  /\ rx' = [rx EXCEPT ![p].state = "dropped"]
  /\ chan' = [chan EXCEPT ![p] = << >>]
  /\ UNCHANGED << config_vars, gateways, gateway_counter, pc, req, local, outbound, result,
                  ret, sse, selected >>

\* every step of proxy_handler on the full input sets
Handler(p) ==
  \/ HandlerNextTargetUrl(p, Methods, << Uris[1] >>, InboundHeaders, InboundBodies)
  \/ HandlerCurrentGatewayToken(p)
  \/ ReadBody(p, TransportErrors)
  \/ Forward(p)
  \/ Send(p, Statuses, UpstreamHeaders, TransportErrors)
  \/ ReadResponse(p, UpstreamBodies, TransportErrors)

\* every step of a synthesized stream
Stream(p) ==
  \/ SseParse(p)
  \/ SseSendWord(p)
  \/ SsePace(p)
  \/ SseSendFinal(p)
  \/ SseSendChoice(p)
  \/ SseSendOpaque(p)
  \/ SseSendText(p)
  \/ SseSendDone(p)
  \/ Recv(p)
  \/ RecvEnd(p)
  \/ Disconnect(p)

(***************************************************************************)
(* Spec: the tasks run concurrently on one Config; each calls the Config   *)
(* operations directly or handles one request that does not ask for a      *)
(* stream and whose transport does not fail.                               *)
(***************************************************************************)
PlainHandler(p) ==
  \/ HandlerNextTargetUrl(p, << "POST" >>, << Uris[1] >>, << InboundHeaders[2] >>,
                          << InboundBodies[4] >>)
  \/ HandlerCurrentGatewayToken(p)
  \/ ReadBody(p, << >>)
  \/ Forward(p)
  \/ Send(p, << 200 >>, << UpstreamHeaders[1] >>, << >>)
  \/ ReadResponse(p, << UpstreamBodies[1] >>, << >>)

Next ==
  \E p \in Tasks :
    \/ CallNextGateway(p)
    \/ CallCurrentGatewayToken(p)
    \/ PlainHandler(p)

Spec == Init /\ [][Next]_vars

(***************************************************************************)
(* SpecClones: every task works on the clone of the AppState that its      *)
(* request received; the Config has 1 .. MaxGateways gateways and one      *)
(* provider with two keys.                                                 *)
(***************************************************************************)
InitClones ==
  /\ \E n \in 1 .. MaxGateways :
       toml = Ok(TomlConfig([i \in 1 .. n |-> Gateway(i)],
                            [name \in {"openai"} |-> ProviderConfig(name, 2)]))
  /\ Built
  /\ Idle

NextClones ==
  \E p \in Tasks :
    \/ CloneAppState(p)
    \/ DropAppState(p)
    \/ StateNextGateway(p)
    \/ StateCurrentGatewayToken(p)
    \/ StateNextApiKey(p, "openai")

SpecClones == InitClones /\ [][NextClones]_vars

\* SpecWrap: the same tasks on a Config whose counter is about to overflow
SpecWrap == InitWrap /\ [][Next]_vars

(***************************************************************************)
(* SpecHandlers: the only users of the Config are concurrently running     *)
(* proxy_handler invocations.                                              *)
(***************************************************************************)
NextHandlers == \E p \in Tasks : PlainHandler(p)

SpecHandlers == Init /\ [][NextHandlers]_vars

(***************************************************************************)
(* SpecPaths: concurrently running proxy_handler invocations whose         *)
(* requests differ in their paths.                                         *)
(***************************************************************************)
PathHandler(p) ==
  \/ HandlerNextTargetUrl(p, << "POST" >>, Uris, << InboundHeaders[1] >>,
                          << InboundBodies[4] >>)
  \/ HandlerCurrentGatewayToken(p)
  \/ ReadBody(p, << >>)
  \/ Forward(p)
  \/ Send(p, << 200 >>, << UpstreamHeaders[1] >>, << >>)
  \/ ReadResponse(p, << UpstreamBodies[1] >>, << >>)

NextPaths == \E p \in Tasks : PathHandler(p)

SpecPaths == Init /\ [][NextPaths]_vars

(***************************************************************************)
(* SpecMain: the single-gateway program of main.rs.  Its Config comes from *)
(* the environment (main.rs 83-109): the account and the gateway are those *)
(* of Gateway(1), the provider path is "/openai".  Its handler appends the *)
(* cleaned request path to the URL and sets no gateway token; the rest of  *)
(* the handler is the code of proxy.rs.                                    *)
(***************************************************************************)
InitMain ==
  /\ toml = Ok(TomlConfig(<< Gateway(1) >>, NoEntries))
  /\ Built
  /\ Idle

\* main.rs 553-568: the request is taken apart and the target URL is built
\* from the base URL, the provider path "/openai" (main.rs 102) and the
\* cleaned path
MainTargetUrl(p, methods, uris, headerSets, bodies) ==
  /\ pc[p] = "idle"
  /\ \E m \in 1 .. Len(methods), u \in 1 .. Len(uris),
        h \in 1 .. Len(headerSets), b \in 1 .. Len(bodies) :
       /\ req' = [req EXCEPT ![p] = [method |-> methods[m], uri |-> uris[u],
                                     headers |-> headerSets[h],
                                     body |-> bodies[b]]]
       /\ local' = [local EXCEPT ![p].target_url =
                      base_url(gateways[1]) \o "/openai"
                        \o Flat(cleaned_path(uris[u]))]
  /\ pc' = [pc EXCEPT ![p] = "read_body"]
  /\ UNCHANGED << config_vars, gateways, gateway_counter, outbound, result, ret, sse,
                  chan, rx, selected >>

\* main.rs 592-627: the body is rewritten, the headers are filtered and the
\* request is handed to the client
MainForward(p) ==
  /\ pc[p] = "forward"
  /\ \E rewritten \in {RewriteBody(local[p].body_bytes)} :
       /\ local' = [local EXCEPT ![p].modified_body = rewritten[1],
                                 ![p].was_stream_request = rewritten[2]]
       /\ outbound' = [outbound EXCEPT ![p] = Append(@,
              [method |-> req[p].method,
               url |-> local[p].target_url,
               headers |-> FilterRequestHeaders(req[p].headers),
               body |-> rewritten[1]])]
  /\ pc' = [pc EXCEPT ![p] = "sending"]
  /\ UNCHANGED << config_vars, gateways, gateway_counter, req, result, ret, sse, chan, rx,
                  selected >>

MainHandler(p) ==
  \/ MainTargetUrl(p, Methods, MainUris, << InboundHeaders[1] >>, << InboundBodies[4] >>)
  \/ ReadBody(p, << >>)
  \/ MainForward(p)
  \/ Send(p, << 200 >>, << UpstreamHeaders[1] >>, << >>)
  \/ ReadResponse(p, << UpstreamBodies[1] >>, << >>)

NextMain == \E p \in Tasks : MainHandler(p)

SpecMain == InitMain /\ [][NextMain]_vars

(***************************************************************************)
(* SpecProviders: one request is handled by a Config whose file lists      *)
(* provider API keys.                                                      *)
(***************************************************************************)
\* Config::from_toml succeeded on a file with gateways and any providers
InitProviders ==
  /\ toml \in {t \in TomlFiles : t.ok /\ t.v.gateways # << >>}
  /\ Built
  /\ Idle

NextProviders ==
  \/ HandlerNextTargetUrl(1, << "POST" >>, << Uris[1] >>,
                          << InboundHeaders[1], InboundHeaders[3] >>,
                          << InboundBodies[4] >>)
  \/ HandlerCurrentGatewayToken(1)
  \/ ReadBody(1, << >>)
  \/ Forward(1)
  \/ Send(1, << 200 >>, << UpstreamHeaders[1] >>, << >>)
  \/ ReadResponse(1, << UpstreamBodies[1] >>, << >>)

SpecProviders == InitProviders /\ [][NextProviders]_vars

(***************************************************************************)
(* SpecForward: one request is handled, on every input of the model.       *)
(***************************************************************************)
NextForward == Handler(1) \/ Stream(1)

SpecForward == InitAnyToken /\ [][NextForward]_vars

(***************************************************************************)
(* SpecConfig: the configuration file is loaded, and the tasks call the    *)
(* operations of the Config that was constructed, if one was.              *)
(***************************************************************************)
NextConfig ==
  \/ FromToml
  \/ \E p \in Tasks :
       \/ CallNextGateway(p)
       \/ CallCurrentGatewayToken(p)
       \/ \E provider \in ProviderNames : CallNextApiKey(p, provider)

SpecConfig == InitFile /\ [][NextConfig]_vars

(***************************************************************************)
(* SpecStreams: two requests that ask for a stream are handled             *)
(* concurrently; the runtime schedules every producer task that can take   *)
(* a step (a spawned tokio task runs, its sleep ends, a send on a channel  *)
(* that has room or has lost its receiver returns).                        *)
(***************************************************************************)
\* the steps of the producer task of a stream
Producer(p) ==
  \/ SseParse(p)
  \/ SseSendWord(p)
  \/ SsePace(p)
  \/ SseSendFinal(p)
  \/ SseSendChoice(p)
  \/ SseSendOpaque(p)
  \/ SseSendText(p)
  \/ SseSendDone(p)

\* the steps the producer task takes for a body with chat content: the word
\* loop, whose send detects a dropped receiver, the final chunk and [DONE]
WordProducer(p) ==
  \/ SseParse(p)
  \/ SseSendWord(p)
  \/ SsePace(p)
  \/ SseSendFinal(p)
  \/ SseSendDone(p)

\* the steps of the consumer of a stream
Consumer(p) == Recv(p) \/ RecvEnd(p) \/ Disconnect(p)

StreamHandler(p) ==
  \/ HandlerNextTargetUrl(p, << "POST" >>, << Uris[1] >>, << InboundHeaders[3] >>,
                          << InboundBodies[1] >>)
  \/ HandlerCurrentGatewayToken(p)
  \/ ReadBody(p, << >>)
  \/ Forward(p)
  \/ Send(p, << 200 >>, << UpstreamHeaders[1] >>, << >>)
  \/ ReadResponse(p, << UpstreamBodies[1] >>, << >>)

NextStreams ==
  \/ StreamHandler(1) \/ WordProducer(1) \/ Consumer(1)
  \/ StreamHandler(2) \/ WordProducer(2) \/ Consumer(2)

SpecStreams ==
  /\ Init
  /\ [][NextStreams]_vars
  /\ WF_vars(WordProducer(1))
  /\ WF_vars(WordProducer(2))

(***************************************************************************)
(* SpecDrain: one stream request whose upstream body is any body of the    *)
(* catalogue.  The producer task keeps being scheduled and the response    *)
(* body keeps being polled while the client is connected; the client may   *)
(* disconnect at any time.                                                 *)
(***************************************************************************)
DrainHandler(p) ==
  \/ HandlerNextTargetUrl(p, << "POST" >>, << Uris[1] >>, << InboundHeaders[3] >>,
                          << InboundBodies[1] >>)
  \/ HandlerCurrentGatewayToken(p)
  \/ ReadBody(p, << >>)
  \/ Forward(p)
  \/ Send(p, << 200 >>, << UpstreamHeaders[1] >>, << >>)
  \/ ReadResponse(p, UpstreamBodies, << >>)

Reader(p) == Recv(p) \/ RecvEnd(p)

NextDrain == DrainHandler(1) \/ Producer(1) \/ Reader(1) \/ Disconnect(1)

SpecDrain ==
  /\ Init
  /\ [][NextDrain]_vars
  /\ WF_vars(Producer(1))
  /\ WF_vars(Reader(1))

(***************************************************************************)
(* SpecChannel: two concurrent stream requests on a configuration with one *)
(* gateway.  The upstream body of the first is the chat completion with    *)
(* more words than the channel has slots, the body of the second is the    *)
(* chat completion whose first choice has no content.  The clients stay    *)
(* connected and read at any pace.                                         *)
(***************************************************************************)
InitChannel ==
  /\ toml = Ok(TomlConfig(<< Gateway(1) >>, NoEntries))
  /\ Built
  /\ Idle

LongStreamHandler(p) ==
  \/ HandlerNextTargetUrl(p, << "POST" >>, << Uris[1] >>, << InboundHeaders[3] >>,
                          << InboundBodies[1] >>)
  \/ HandlerCurrentGatewayToken(p)
  \/ ReadBody(p, << >>)
  \/ Forward(p)
  \/ Send(p, << 200 >>, << UpstreamHeaders[1] >>, << >>)
  \/ ReadResponse(p, << LongBody >>, << >>)

ChoiceStreamHandler(p) ==
  \/ HandlerNextTargetUrl(p, << "POST" >>, << Uris[1] >>, << InboundHeaders[3] >>,
                          << InboundBodies[1] >>)
  \/ HandlerCurrentGatewayToken(p)
  \/ ReadBody(p, << >>)
  \/ Forward(p)
  \/ Send(p, << 200 >>, << UpstreamHeaders[1] >>, << >>)
  \/ ReadResponse(p, << UpstreamBodies[6] >>, << >>)

ChoiceProducer(p) == SseParse(p) \/ SseSendChoice(p) \/ SseSendDone(p)

NextChannel ==
  \/ LongStreamHandler(1) \/ WordProducer(1) \/ Reader(1)
  \/ ChoiceStreamHandler(2) \/ ChoiceProducer(2) \/ Reader(2)

SpecChannel == InitChannel /\ [][NextChannel]_vars

(***************************************************************************)
(* Properties.                                                             *)
(***************************************************************************)
IsPrefix(a, b) == Len(a) <= Len(b) /\ a = SubSeq(b, 1, Len(a))

\* C1: every request sent upstream carries, as its only cf-aig-authorization
\* value, "Bearer " and the token of the gateway whose base URL built the
\* request's URL, under every interleaving of the handlers.
C1_TokenMatchesTargetGateway ==
  \A p \in Tasks : \A k \in 1 .. Len(outbound[p]) :
    \E i \in 1 .. Len(gateways) :
      /\ outbound[p][k].url = base_url(gateways[i]) \o openai_compat_path
      /\ outbound[p][k].headers["cf-aig-authorization"]
           = << "Bearer " \o gateways[i].token >>

\* C2: on a fresh Config the k-th call of next_gateway returns
\* gateways[(k-1) mod N]: the first N calls return every gateway once, in
\* configured order, and call N+1 returns the first gateway again.
C2_RoundRobinOrder ==
  \A k \in 1 .. Len(selected) :
    selected[k].gateway = gateways[((k - 1) % Len(gateways)) + 1]

C2_Witness ==
  /\ Len(gateways) >= 2
  /\ Len(selected) = Len(gateways) + 1
  /\ \A i \in 1 .. Len(gateways) : selected[i].gateway = gateways[i]
  /\ selected[Len(gateways) + 1].gateway = gateways[1]

\* number of selections of gateway i so far
TimesSelected(i) ==
  Cardinality({k \in 1 .. Len(selected) : selected[k].gateway = gateways[i]})

\* C3: the calls of next_gateway made by concurrent tasks observe distinct,
\* consecutive counter values; the numbers of selections of any two gateways
\* differ by at most 1, and after k*N calls every gateway was selected k times.
C3_DistinctConsecutiveFair ==
  /\ \A j, k \in 1 .. Len(selected) : j # k => selected[j].value # selected[k].value
  /\ \A k \in 1 .. Len(selected) : selected[k].value = k - 1
  /\ \A i, j \in 1 .. Len(gateways) : TimesSelected(i) - TimesSelected(j) <= 1
  /\ Len(selected) % Len(gateways) = 0
       => \A i \in 1 .. Len(gateways) :
            TimesSelected(i) = Len(selected) \div Len(gateways)

C3_Witness ==
  /\ Len(gateways) = 2
  /\ Len(selected) = 4
  /\ \A p \in Tasks : pc[p] = "token"
  /\ TimesSelected(1) = 2 /\ TimesSelected(2) = 2

\* C4: a call of current_gateway_token that follows a next_gateway call with
\* no other selection in between returns the token of the gateway that call
\* returned.
C4_TokenOfLastSelection ==
  /\ (ret # None /\ ret.op = "current_gateway_token" /\ ret.at >= 1)
       => ret.token = selected[ret.at].gateway.token
  /\ \A p \in Tasks :
       local[p].token_at >= 1
         => local[p].gateway_token = selected[local[p].token_at].gateway.token

C4_Witness ==
  /\ Len(gateways) = 3
  /\ ret # None /\ ret.op = "current_gateway_token"
  /\ ret.at = 4
  /\ ret.token = gateways[1].token
  /\ \E p \in Tasks : local[p].token_at = 3 /\ local[p].gateway_token = gateways[3].token

\* C5: when the inbound body is JSON whose top-level "stream" is true, the
\* body sent upstream is the same document with "stream" false and every
\* other field unchanged, and the request is recorded as a stream request;
\* no body sent upstream has "stream" true.
C5_StreamRewrittenToFalse ==
  \A p \in Tasks : \A k \in 1 .. Len(outbound[p]) :
    LET inbound == from_slice(req[p].body)
        sent == from_slice(outbound[p][k].body)
    IN /\ (inbound.ok /\ Get(inbound.v, "stream") = JBool(TRUE))
            => /\ sent.ok
               /\ sent.v.t = "obj"
               /\ DOMAIN sent.v.o = DOMAIN inbound.v.o
               /\ sent.v.o["stream"] = JBool(FALSE)
               /\ \A key \in DOMAIN inbound.v.o \ {"stream"} :
                    sent.v.o[key] = inbound.v.o[key]
               /\ local[p].was_stream_request
       /\ ~(sent.ok /\ Get(sent.v, "stream") = JBool(TRUE))

C5_Witness ==
  /\ Len(outbound[1]) = 1
  /\ req[1].body = Bytes("{\"stream\":true,\"temperature\":1,\"model\":\"m\"}")
  /\ outbound[1][1].body = Bytes("{\"model\":\"m\",\"stream\":false,\"temperature\":1}")
  /\ local[1].was_stream_request

\* C6: the frames a consumer that reads to the end receives contain the
\* frame "data: [DONE]\n\n" exactly once, as the last frame.
C6_SentinelExactlyOnceLast ==
  \A p \in Tasks :
    rx[p].state = "ended"
      => /\ Len(rx[p].received) >= 1
         /\ rx[p].received[Len(rx[p].received)] = "data: [DONE]\n\n"
         /\ \A i \in 1 .. Len(rx[p].received) - 1 :
              rx[p].received[i] # "data: [DONE]\n\n"

\* the inbound body is JSON with "stream" false or without a "stream" field
NotAStreamBody(bytes) ==
  LET parsed == from_slice(bytes)
  IN /\ parsed.ok
     /\ \/ Get(parsed.v, "stream") = None
        \/ Get(parsed.v, "stream") = JBool(FALSE)

\* C7: when the inbound JSON body has "stream" false or no "stream" field,
\* the body is forwarded byte for byte, the response to a completed upstream
\* call has the upstream status and the upstream body byte for byte, no
\* stream is synthesized and the content type is the upstream's.
C7_VerbatimWithoutStream ==
  \A p \in Tasks :
    (req[p] # None /\ NotAStreamBody(req[p].body))
      => /\ \A k \in 1 .. Len(outbound[p]) : outbound[p][k].body = req[p].body
         /\ sse[p].pc = "none"
         /\ rx[p].state = "none"
         /\ (pc[p] = "done" /\ result[p].error = "")
              => /\ result[p].status = local[p].status
                 /\ result[p].body = [stream |-> FALSE, bytes |-> local[p].bytes]
                 /\ result[p].headers["content-type"]
                      = local[p].response_headers["content-type"]

C7_Witness ==
  /\ pc[1] = "done"
  /\ result[1].error = ""
  /\ req[1].body = Bytes("{\"temperature\":1,\"model\":\"m\"}")
  /\ outbound[1][1].body = Bytes("{\"temperature\":1,\"model\":\"m\"}")
  /\ result[1].status = 502
  /\ result[1].body = [stream |-> FALSE, bytes |-> Bytes("[DONE]")]
  /\ result[1].headers["content-type"] = << "application/json" >>

\* choices[0].message.content of a body when it is a string, None otherwise
ChatContent(bytes) ==
  LET parsed == from_slice(bytes)
  IN IF /\ parsed.ok
        /\ parsed.v.t = "obj"
        /\ "choices" \in DOMAIN parsed.v.o
        /\ parsed.v.o["choices"].t = "arr"
        /\ Len(parsed.v.o["choices"].a) >= 1
        /\ parsed.v.o["choices"].a[1].t = "obj"
        /\ "message" \in DOMAIN parsed.v.o["choices"].a[1].o
        /\ parsed.v.o["choices"].a[1].o["message"].t = "obj"
        /\ "content" \in DOMAIN parsed.v.o["choices"].a[1].o["message"].o
        /\ parsed.v.o["choices"].a[1].o["message"].o["content"].t = "str"
     THEN parsed.v.o["choices"].a[1].o["message"].o["content"].s
     ELSE None

HasChatContent(bytes) ==
  LET parsed == from_slice(bytes)
  IN /\ parsed.ok
     /\ parsed.v.t = "obj"
     /\ "choices" \in DOMAIN parsed.v.o
     /\ parsed.v.o["choices"].t = "arr"
     /\ Len(parsed.v.o["choices"].a) >= 1
     /\ parsed.v.o["choices"].a[1].t = "obj"
     /\ "message" \in DOMAIN parsed.v.o["choices"].a[1].o
     /\ parsed.v.o["choices"].a[1].o["message"].t = "obj"
     /\ "content" \in DOMAIN parsed.v.o["choices"].a[1].o["message"].o
     /\ parsed.v.o["choices"].a[1].o["message"].o["content"].t = "str"

\* the positions where a word of s starts, and the word that starts at i
WordStarts(s) ==
  {i \in 1 .. Len(s) : s[i] \notin WhiteSpace /\ (i = 1 \/ s[i - 1] \in WhiteSpace)}

WordAt(s, i) ==
  LET ends == {j \in i .. Len(s) :
                 /\ \A k \in i .. j : s[k] \notin WhiteSpace
                 /\ (j = Len(s) \/ s[j + 1] \in WhiteSpace)}
  IN SubSeq(s, i, CHOOSE j \in ends : TRUE)

\* the k-th smallest element of a set of numbers
Nth(S, k) == CHOOSE x \in S : Cardinality({y \in S : y < x}) = k - 1

\* the frames of a chat-content stream as section 4.3 describes them: one frame
\* per word (the word and one space, no space after the last word), the
\* terminal frame, the sentinel
DescribedFrames(bytes) ==
  LET content == ChatContent(bytes)
      json == from_slice(bytes).v
      W == Cardinality(WordStarts(content))
  IN [k \in 1 .. W + 2 |->
        IF k <= W
        THEN LET word == WordAt(content, Nth(WordStarts(content), k))
             IN "data: "
                  \o to_string(DeltaChunk(json, IF k < W THEN word \o << " " >> ELSE word))
                  \o "\n\n"
        ELSE IF k = W + 1
        THEN "data: " \o to_string(FinalChunk(json)) \o "\n\n"
        ELSE "data: [DONE]\n\n"]

\* C8: when choices[0].message.content is a string of W >= 0 words, a consumer
\* that reads to the end receives W word frames in word order, each word but
\* the last followed by one space, then one terminal frame, then the
\* sentinel: W + 2 frames.
C8_WordFramesThenTerminalThenSentinel ==
  \A p \in Tasks :
    (rx[p].state = "ended" /\ HasChatContent(sse[p].response_bytes))
      => /\ Len(rx[p].received)
              = Cardinality(WordStarts(ChatContent(sse[p].response_bytes))) + 2
         /\ rx[p].received = DescribedFrames(sse[p].response_bytes)

C8_Witness ==
  /\ rx[1].state = "ended"
  /\ HasChatContent(sse[1].response_bytes)
  /\ ChatContent(sse[1].response_bytes) = Chars_Hello_world
  /\ rx[1].received =
       << "data: {\"choices\":[{\"delta\":{\"content\":\"Hello \"},\"finish_reason\":null,\"index\":0}],\"created\":7,\"id\":\"c1\",\"model\":\"m\",\"object\":\"chat.completion.chunk\"}\n\n",
          "data: {\"choices\":[{\"delta\":{\"content\":\"world\"},\"finish_reason\":null,\"index\":0}],\"created\":7,\"id\":\"c1\",\"model\":\"m\",\"object\":\"chat.completion.chunk\"}\n\n",
          "data: {\"choices\":[{\"delta\":{},\"finish_reason\":\"stop\",\"index\":0}],\"created\":7,\"id\":\"c1\",\"model\":\"m\",\"object\":\"chat.completion.chunk\",\"usage\":{\"completion_tokens\":2}}\n\n",
          "data: [DONE]\n\n" >>

\* the frames a stream has emitted that the client has received or can
\* still receive
Emitted(p) == rx[p].received \o chan[p]

\* C9: at every step of a stream with chat content the frames emitted so far
\* are a prefix of: the word frames in word order, the terminal frame, the
\* sentinel; once the sentinel is emitted nothing more is emitted.
C9_OrderedEmission ==
  [][\A p \in Tasks :
       (sse[p]'.pc # "none" /\ HasChatContent(sse[p]'.response_bytes))
         => /\ IsPrefix(Emitted(p)', DescribedFrames(sse[p]'.response_bytes))
            /\ ("data: [DONE]\n\n" \in {Emitted(p)[k] : k \in 1 .. Len(Emitted(p))})
                 => (Emitted(p)' = Emitted(p) \/ rx[p]'.state = "dropped")]_vars

C9_Witness ==
  /\ sse[1].pc = "end"
  /\ rx[1].state = "open"
  /\ Len(rx[1].received) = 1
  /\ Len(chan[1]) = 3
  /\ HasChatContent(sse[1].response_bytes)
  /\ ChatContent(sse[1].response_bytes) = Chars_padded

C10_WitnessNotText ==
  /\ rx[1].state = "ended"
  /\ ~sse[1].response_bytes.utf8
  /\ rx[1].received = << "data: [DONE]\n\n" >>

\* C11: the headers of every request sent upstream contain none of host,
\* content-length, connection, keep-alive, proxy-authenticate,
\* proxy-authorization, te, trailers, transfer-encoding, upgrade; every other
\* inbound header except cf-aig-authorization, the client's authorization
\* included, is sent with its values unchanged.
C11_OutboundHeadersFiltered ==
  \A p \in Tasks : \A k \in 1 .. Len(outbound[p]) :
    LET sent == outbound[p][k].headers
        removed == {RequestHeadersRemoved[i] : i \in 1 .. Len(RequestHeadersRemoved)}
    IN /\ DOMAIN sent \cap removed = {}
       /\ \A name \in DOMAIN req[p].headers \ (removed \cup {"cf-aig-authorization"}) :
            name \in DOMAIN sent /\ sent[name] = req[p].headers[name]
       /\ DOMAIN sent \subseteq DOMAIN req[p].headers \cup {"cf-aig-authorization"}

C11_Witness ==
  /\ Len(outbound[1]) = 1
  /\ req[1].headers = InboundHeaders[1]
  /\ "host" \in DOMAIN req[1].headers /\ "content-length" \in DOMAIN req[1].headers
  /\ DOMAIN outbound[1][1].headers
       = {"content-type", "authorization", "cf-aig-authorization"}
  /\ outbound[1][1].headers["authorization"] = << "Bearer sk-client" >>

C11_WitnessHopByHop ==
  /\ Len(outbound[1]) = 1
  /\ req[1].headers = InboundHeaders[2]
  /\ DOMAIN outbound[1][1].headers = {"x-custom", "cf-aig-authorization"}
  /\ outbound[1][1].headers["x-custom"] = << "1", "2" >>

HopByHop == {ResponseHeadersRemoved[i] : i \in 1 .. Len(ResponseHeadersRemoved)}

\* C12: on the verbatim path and on the synthesized-stream path alike, the
\* response returned to the client has none of the headers connection,
\* keep-alive, proxy-authenticate, proxy-authorization, te, trailers,
\* transfer-encoding, upgrade.
C12_NoHopByHopInResponse ==
  \A p \in Tasks :
    (pc[p] = "done" /\ result[p].error = "")
      => DOMAIN result[p].headers \cap HopByHop = {}

\* C12 as the code has it: on the verbatim path the response has none of the
\* hop-by-hop headers and every other upstream header unchanged; on the
\* synthesized-stream path no upstream header is returned and the response
\* has exactly content-type: text/event-stream, cache-control: no-cache and
\* connection: keep-alive, so connection is its only hop-by-hop header.
C12_HopByHopOnlyFromSynthesizer ==
  \A p \in Tasks :
    (pc[p] = "done" /\ result[p].error = "")
      => IF result[p].body.stream
         THEN /\ result[p].headers = SseHeaders
              /\ DOMAIN result[p].headers \cap HopByHop = {"connection"}
              /\ result[p].headers["connection"] = << "keep-alive" >>
         ELSE /\ DOMAIN result[p].headers \cap HopByHop = {}
              /\ \A name \in DOMAIN local[p].response_headers \ HopByHop :
                   /\ name \in DOMAIN result[p].headers
                   /\ result[p].headers[name] = local[p].response_headers[name]

C12_Witness ==
  /\ pc[1] = "done" /\ result[1].error = ""
  /\ ~result[1].body.stream
  /\ local[1].response_headers = UpstreamHeaders[2]
  /\ DOMAIN result[1].headers = {"content-type", "host", "x-request-id"}

C12_WitnessStream ==
  /\ pc[1] = "done" /\ result[1].error = ""
  /\ result[1].body.stream
  /\ local[1].response_headers = UpstreamHeaders[1]
  /\ result[1].headers["connection"] = << "keep-alive" >>

\* the cf-aig-authorization values of a header map
GatewayAuthorization(headers) ==
  IF "cf-aig-authorization" \in DOMAIN headers
  THEN headers["cf-aig-authorization"]
  ELSE << >>

\* C13: whether the client sent no, one or several cf-aig-authorization
\* values, every request sent upstream carries exactly one, it is "Bearer "
\* and the token of a configured gateway, and it is none of the client's.
C13_GatewayAuthorizationOverridden ==
  \A p \in Tasks : \A k \in 1 .. Len(outbound[p]) :
    LET sent == GatewayAuthorization(outbound[p][k].headers)
        client == GatewayAuthorization(req[p].headers)
    IN /\ Len(sent) = 1
       /\ \E i \in 1 .. Len(gateways) : sent[1] = "Bearer " \o gateways[i].token
       /\ \A j \in 1 .. Len(client) : sent[1] # client[j]

C13_Witness ==
  /\ Len(outbound[1]) = 1
  /\ GatewayAuthorization(req[1].headers) = << "Bearer client-a", "Bearer client-b" >>
  /\ GatewayAuthorization(outbound[1][1].headers) = << "Bearer tok1" >>

C13_WitnessOne ==
  /\ Len(outbound[1]) = 1
  /\ GatewayAuthorization(req[1].headers) = << "Bearer client-one" >>
  /\ GatewayAuthorization(outbound[1][1].headers) = << "Bearer tok1" >>

C13_WitnessNone ==
  /\ Len(outbound[1]) = 1
  /\ GatewayAuthorization(req[1].headers) = << >>
  /\ GatewayAuthorization(outbound[1][1].headers) = << "Bearer tok1" >>

\* C14: for a provider with K >= 1 keys the k-th call of next_api_key returns
\* keys[(k-1) mod K], so K consecutive calls return every key once in
\* configured order and call K+1 returns the first key again; for a provider
\* that is absent or has no keys every call returns None.
C14_ApiKeyRoundRobin ==
  \A name \in ProviderNames : \A k \in 1 .. Len(issued[name]) :
    IF name \in DOMAIN providers /\ Len(providers[name].api_keys) >= 1
    THEN issued[name][k]
           = Some(providers[name].api_keys[
                    ((k - 1) % Len(providers[name].api_keys)) + 1])
    ELSE issued[name][k] = None

C14_Witness ==
  /\ ConfigExists
  /\ "openai" \in DOMAIN providers /\ "gemini" \in DOMAIN providers
  /\ Len(providers["openai"].api_keys) = 3
  /\ Len(providers["gemini"].api_keys) = 2
  /\ issued["openai"] = << Some("sk-openai-1"), Some("sk-openai-2"),
                           Some("sk-openai-3"), Some("sk-openai-1") >>
  /\ issued["gemini"] = << Some("sk-gemini-1"), Some("sk-gemini-2"),
                           Some("sk-gemini-1") >>

C14_WitnessAbsentOrEmpty ==
  /\ ConfigExists
  /\ "openai" \notin DOMAIN providers
  /\ "gemini" \in DOMAIN providers /\ providers["gemini"].api_keys = << >>
  /\ issued["openai"] = << None, None >>
  /\ issued["gemini"] = << None, None >>

\* C15: from_toml returns an error and constructs no Config when the file
\* lists zero gateways; every Config that exists has at least one gateway,
\* and the indices next_gateway and current_gateway_token compute from the
\* counter are indices of the gateway list.
C15_NoConfigWithoutGateways ==
  /\ (loaded # None /\ toml.ok /\ toml.v.gateways = << >>)
       => /\ ~loaded.ok
          /\ loaded.e = "At least one gateway configuration is required"
          /\ gateways = << >>
          /\ selected = << >>
  /\ ConfigExists
       => /\ Len(gateways) >= 1
          /\ GatewayIndex(gateway_counter, Len(gateways)) + 1 \in DOMAIN gateways
          /\ TokenIndex(gateway_counter, Len(gateways)) + 1 \in DOMAIN gateways
          /\ \A k \in 1 .. Len(selected) :
               GatewayIndex(selected[k].value, Len(gateways)) + 1 \in DOMAIN gateways

C15_Witness ==
  /\ toml.ok
  /\ toml.v.gateways = << >>
  /\ "openai" \in DOMAIN toml.v.providers
  /\ loaded = ErrMsg("At least one gateway configuration is required")

C15_WitnessConfig ==
  /\ ConfigExists
  /\ Len(gateways) = 1
  /\ Len(selected) = 2
  /\ ret # None /\ ret.op = "current_gateway_token" /\ ret.token = "tok1"

\* the number of requests tasks 1 .. n have sent upstream
RECURSIVE Forwarded(_)
Forwarded(n) == IF n = 0 THEN 0 ELSE Len(outbound[n]) + Forwarded(n - 1)

\* C16: when no request is in flight, the gateway counter equals its initial
\* value, 0, plus the number of requests forwarded upstream: a forwarded
\* request advances it by one, a request that is not forwarded does not
\* advance it.
C16_CounterCountsForwarded ==
  (\A p \in Tasks : pc[p] \in {"idle", "done"})
    => gateway_counter = Forwarded(NumTasks) % Modulus

\* the handler of task p ended because the step `at` failed
FailedAt(p, at) ==
  /\ pc[p] = "done"
  /\ local[p].failure # None
  /\ local[p].failure.at = at

\* C17: when sending the upstream request fails at transport level, or
\* reading the upstream response body fails, the response is 502 Bad Gateway,
\* its body is a message that ends with the text of the underlying error, and
\* no stream is synthesized, whether or not the client asked for one.
C17_TransportFailureIsBadGateway ==
  \A p \in Tasks :
    /\ FailedAt(p, "send")
         => /\ result[p].status = 502
            /\ result[p].body =
                 [stream |-> FALSE,
                  bytes |-> Bytes("Failed to forward request to target: "
                                    \o local[p].failure.e)]
            /\ sse[p].pc = "none" /\ rx[p].state = "none" /\ chan[p] = << >>
    /\ FailedAt(p, "read_response")
         => /\ result[p].status = 502
            /\ result[p].body =
                 [stream |-> FALSE,
                  bytes |-> Bytes("Failed to read response body: "
                                    \o local[p].failure.e)]
            /\ sse[p].pc = "none" /\ rx[p].state = "none" /\ chan[p] = << >>

C17_Witness ==
  /\ FailedAt(1, "read_response")
  /\ local[1].was_stream_request
  /\ local[1].status = 200
  /\ result[1].status = 502
  /\ result[1].body.bytes = Bytes("Failed to read response body: operation timed out")
  /\ sse[1].pc = "none"

C17_WitnessSend ==
  /\ FailedAt(1, "send")
  /\ local[1].was_stream_request
  /\ result[1].status = 502
  /\ result[1].body.bytes = Bytes("Failed to forward request to target: connection reset")
  /\ sse[1].pc = "none"

\* C18: when the inbound body cannot be read the response is 400 Bad Request
\* and no upstream request is sent; whenever the handler returns an error no
\* stream has been started; a BadRequest error is returned only before any
\* upstream request.
C18_ErrorsShortCircuit ==
  \A p \in Tasks :
    /\ (local[p].failure # None /\ local[p].failure.at = "read_body")
         => /\ pc[p] = "done"
            /\ result[p].error = "BadRequest"
            /\ result[p].status = 400
            /\ outbound[p] = << >>
    /\ (result[p] # None /\ result[p].error # "")
         => /\ ~result[p].body.stream
            /\ sse[p].pc = "none" /\ rx[p].state = "none" /\ chan[p] = << >>
    /\ (result[p] # None /\ result[p].error = "BadRequest")
         => outbound[p] = << >>

C18_Witness ==
  /\ FailedAt(1, "read_body")
  /\ req[1].body = Bytes("{\"model\":\"m\",\"stream\":true}")
  /\ result[1].status = 400
  /\ result[1].body.bytes = Bytes("Failed to read request body: connection reset")
  /\ outbound[1] = << >>

C18_WitnessToken ==
  /\ pc[1] = "done"
  /\ local[1].was_stream_request
  /\ result[1] = into_response("BadRequest", "Invalid gateway token format")
  /\ outbound[1] = << >>
  /\ sse[1].pc = "none"

\* C19: when the upstream call completes with a status, the response returned
\* to the client has that status, on the verbatim path and on the
\* synthesized-stream path; the handler itself answers 502 only when sending
\* the request or reading the response body failed.
C19_UpstreamStatusPassedThrough ==
  \A p \in Tasks :
    pc[p] = "done"
      => /\ result[p].error = ""
              => /\ local[p].bytes # None
                 /\ result[p].status = local[p].status
         /\ result[p].error = "BadGateway"
              <=> (FailedAt(p, "send") \/ FailedAt(p, "read_response"))
         /\ (result[p].status = 502 /\ result[p].error # "BadGateway")
              => (result[p].error = "" /\ local[p].status = 502)

C19_Witness ==
  /\ pc[1] = "done"
  /\ result[1].error = ""
  /\ result[1].body.stream
  /\ local[1].status = 429
  /\ result[1].status = 429

C19_WitnessVerbatim ==
  /\ pc[1] = "done"
  /\ result[1].error = ""
  /\ ~result[1].body.stream
  /\ local[1].status = 502
  /\ result[1].status = 502
  /\ local[1].failure = None

\* C20: every invocation of the handler sends at most one upstream request
\* and selects one gateway: after a failed attempt or an answer that is not a
\* success it sends nothing more, to the same gateway or to the next one.
C20_AtMostOneUpstreamRequest ==
  /\ \A p \in Tasks : Len(outbound[p]) <= 1
  /\ Len(selected) = Cardinality({p \in Tasks : pc[p] # "idle"})
  /\ \A p \in Tasks :
       pc[p] = "done" => gateway_counter = Len(selected) % Modulus

C20_Witness ==
  /\ FailedAt(1, "send")
  /\ Len(outbound[1]) = 1
  /\ Len(selected) = 1
  /\ gateway_counter = 1

C20_WitnessNotSuccess ==
  /\ pc[1] = "done"
  /\ result[1].error = ""
  /\ result[1].status = 429
  /\ Len(outbound[1]) = 1
  /\ Len(selected) = 1

\* C21: the URL of every request sent upstream is the base URL of a
\* configured gateway, the compatibility suffix, and the inbound path and
\* query without a leading "/v1"; two requests sent to the same gateway with
\* different inbound paths have different URLs.
C21_UrlCarriesInboundPath ==
  /\ \A p \in Tasks : \A k \in 1 .. Len(outbound[p]) :
       \E i \in 1 .. Len(gateways) :
         outbound[p][k].url
           = base_url(gateways[i]) \o openai_compat_path
               \o Flat(cleaned_path(req[p].uri))
  /\ \A p, q \in Tasks :
       (/\ outbound[p] # << >> /\ outbound[q] # << >>
        /\ cleaned_path(req[p].uri) # cleaned_path(req[q].uri))
         => outbound[p][1].url # outbound[q][1].url

\* the providers for which the Config has API keys
WithKeys == {name \in DOMAIN providers : providers[name].api_keys # << >>}

\* C22: when the Config has API keys for a provider, the authorization
\* header sent upstream is the next key of such a provider, whose counter
\* has advanced by one, not the client's; when no provider has keys, the
\* client's authorization header is sent as it came.
C22_ProviderKeySubstituted ==
  \A p \in Tasks : \A k \in 1 .. Len(outbound[p]) :
    IF WithKeys # {}
    THEN \E name \in WithKeys :
           /\ Len(issued[name]) >= 1
           /\ provider_counters[name] >= 1
           /\ "authorization" \in DOMAIN outbound[p][k].headers
           /\ outbound[p][k].headers["authorization"]
                = << "Bearer " \o issued[name][Len(issued[name])].v >>
    ELSE /\ "authorization" \in DOMAIN req[p].headers
              => /\ "authorization" \in DOMAIN outbound[p][k].headers
                 /\ outbound[p][k].headers["authorization"]
                      = req[p].headers["authorization"]
         /\ "authorization" \notin DOMAIN req[p].headers
              => "authorization" \notin DOMAIN outbound[p][k].headers

\* C23: once the consumer of a stream has disconnected, nothing more is
\* delivered or queued for it and the response it got is not replaced; the
\* disconnect and the producer's steps after it change nothing of another
\* request (its producer, channel, consumer, handler state, response) nor
\* the gateway counter; the producer task ends; and another request whose
\* consumer reads to the end still receives all its frames.
C23_DisconnectStopsOnlyThatStream ==
  /\ [][\A p \in Tasks :
          /\ rx[p].state = "dropped"
               => /\ rx'[p] = rx[p]
                  /\ chan'[p] = << >>
                  /\ result'[p] = result[p]
                  /\ pc'[p] = pc[p]
          /\ (rx'[p].state = "dropped" /\ (rx[p] # rx'[p] \/ sse[p] # sse'[p]))
               => /\ gateway_counter' = gateway_counter
                  /\ \A q \in Tasks \ {p} :
                       /\ sse'[q] = sse[q] /\ chan'[q] = chan[q] /\ rx'[q] = rx[q]
                       /\ pc'[q] = pc[q] /\ local'[q] = local[q]
                       /\ result'[q] = result[q] /\ outbound'[q] = outbound[q]]_vars
  /\ \A p \in Tasks : (rx[p].state = "dropped") ~> (sse[p].pc = "end")
  /\ [](\A p, q \in Tasks :
          (p # q /\ rx[p].state = "dropped" /\ rx[q].state = "ended")
            => /\ rx[q].received = DescribedFrames(sse[q].response_bytes)
               /\ result[q].error = "" /\ result[p].error = "")

C23_Witness ==
  /\ rx[1].state = "dropped"
  /\ Len(rx[1].received) = 1
  /\ sse[1].pc = "end"
  /\ sse[1].i = 1
  /\ chan[1] = << >>
  /\ rx[2].state = "ended"
  /\ Len(rx[2].received) = 4
  /\ result[1].status = 200 /\ result[1].error = ""

\* C24: whatever the upstream body is, the producer task of a synthesized
\* stream terminates, and a client that stays connected receives the [DONE]
\* marker as the last frame and then sees the body end; the response that
\* carries the stream is never an error response
Drained(p) ==
  /\ rx[p].state = "ended"
  /\ rx[p].received # << >>
  /\ rx[p].received[Len(rx[p].received)] = DoneMarker
  /\ result[p].error = ""

HasFirstChoice(bytes) ==
  LET parsed == from_slice(bytes)
  IN /\ parsed.ok
     /\ parsed.v.t = "obj"
     /\ "choices" \in DOMAIN parsed.v.o
     /\ parsed.v.o["choices"].t = "arr"
     /\ Len(parsed.v.o["choices"].a) >= 1

FirstChoice(bytes) == from_slice(bytes).v.o["choices"].a[1]

\* a top-level field of the source document, or the default when it is absent
SourceField(bytes, key, default) ==
  LET o == from_slice(bytes).v.o
  IN IF key \in DOMAIN o THEN o[key] ELSE default

\* the frame that carries the first choice of the source as it is, in the
\* chunk envelope of the source
FirstChoiceFrame(bytes) ==
  "data: "
    \o to_string(JObj([id |-> SourceField(bytes, "id", JStr(Chars_unknown)),
                        object |-> JStr(Chars_chunk),
                        created |-> SourceField(bytes, "created", JNum(0)),
                        model |-> SourceField(bytes, "model", JStr(Chars_unknown)),
                        choices |-> JArr(<< FirstChoice(bytes) >>)]))
    \o "\n\n"

\* C25: when the first element of a non-empty choices array has no string
\* message.content, a consumer that reads to the end receives two frames: one
\* that carries that first choice as it is, then the sentinel
C25_FirstChoiceVerbatim ==
  \A p \in Tasks :
    (/\ rx[p].state = "ended"
     /\ HasFirstChoice(sse[p].response_bytes)
     /\ ~HasChatContent(sse[p].response_bytes))
      => rx[p].received = << FirstChoiceFrame(sse[p].response_bytes), DoneMarker >>

\* the first choice has a message without content and a second choice follows
C25_Witness ==
  /\ rx[1].state = "ended"
  /\ sse[1].response_bytes = UpstreamBodies[8]
  /\ rx[1].received =
       << "data: {\"choices\":[{\"message\":{\"role\":\"ai\"}}],\"created\":0,\"id\":\"unknown\",\"model\":\"unknown\",\"object\":\"chat.completion.chunk\"}\n\n",
          "data: [DONE]\n\n" >>

\* the body is JSON and has no choices array: it is not an object, or has no
\* choices field, or the field is not an array
JsonWithoutChoices(bytes) ==
  LET parsed == from_slice(bytes)
  IN /\ parsed.ok
     /\ \/ parsed.v.t # "obj"
        \/ "choices" \notin DOMAIN parsed.v.o
        \/ parsed.v.o["choices"].t # "arr"

\* C26: when the upstream body is JSON without a choices array, a consumer
\* that reads to the end receives two frames: one whose payload is the whole
\* document, then the sentinel
C26_WholeDocumentThenSentinel ==
  \A p \in Tasks :
    (rx[p].state = "ended" /\ JsonWithoutChoices(sse[p].response_bytes))
      => rx[p].received =
           << "data: " \o to_string(from_slice(sse[p].response_bytes).v) \o "\n\n",
              DoneMarker >>

\* the choices field of the document is a string
C26_Witness ==
  /\ rx[1].state = "ended"
  /\ sse[1].response_bytes = Bytes("{\"choices\":\"ok\",\"model\":\"m\"}")
  /\ rx[1].received =
       << "data: {\"choices\":\"ok\",\"model\":\"m\"}\n\n", "data: [DONE]\n\n" >>

\* the fields of a chunk of the source: its id, created and model or their
\* defaults, the chunk object type and one choice
Envelope(bytes, choice) ==
  [id |-> SourceField(bytes, "id", JStr(Chars_unknown)),
   object |-> JStr(Chars_chunk),
   created |-> SourceField(bytes, "created", JNum(0)),
   model |-> SourceField(bytes, "model", JStr(Chars_unknown)),
   choices |-> JArr(<< choice >>)]

Frame(value) == "data: " \o to_string(value) \o "\n\n"

\* the k-th piece of a content of W words: the word, and a space unless it
\* is the last
Piece(content, k) ==
  LET word == WordAt(content, Nth(WordStarts(content), k))
  IN IF k < Cardinality(WordStarts(content)) THEN word \o << " " >> ELSE word

\* C27: in a stream with chat content of W words the frame after the word
\* frames has an empty delta, the finish_reason of the first choice ("stop"
\* when the first choice has no such field) and the usage of the source
\* exactly when the source has one; the W word frames have finish_reason null
\* and no usage
C27_TerminalFrame ==
  \A p \in Tasks :
    (rx[p].state = "ended" /\ HasChatContent(sse[p].response_bytes))
      => LET bytes == sse[p].response_bytes
             source == from_slice(bytes).v.o
             content == ChatContent(bytes)
             W == Cardinality(WordStarts(content))
             finish_reason ==
               IF "finish_reason" \in DOMAIN FirstChoice(bytes).o
               THEN FirstChoice(bytes).o["finish_reason"]
               ELSE JStr(Chars_stop)
             terminal ==
               Envelope(bytes, JObj([index |-> JNum(0),
                                     delta |-> JObj(<< >>),
                                     finish_reason |-> finish_reason]))
         IN /\ Len(rx[p].received) = W + 2
            /\ rx[p].received[W + 1] =
                 Frame(IF "usage" \in DOMAIN source
                       THEN JObj(terminal @@ ("usage" :> source["usage"]))
                       ELSE JObj(terminal))
            /\ \A k \in 1 .. W :
                 rx[p].received[k] =
                   Frame(JObj(Envelope(bytes,
                     JObj([index |-> JNum(0),
                           delta |-> JObj([content |-> JStr(Piece(content, k))]),
                           finish_reason |-> JNull]))))

\* a source with finish_reason "length" and no usage: one word frame, then
\* the terminal frame
C27_Witness ==
  /\ rx[1].state = "ended"
  /\ sse[1].response_bytes = UpstreamBodies[3]
  /\ Len(rx[1].received) = 3
  /\ rx[1].received[2] =
       "data: {\"choices\":[{\"delta\":{},\"finish_reason\":\"length\",\"index\":0}],\"created\":0,\"id\":\"c1\",\"model\":\"unknown\",\"object\":\"chat.completion.chunk\"}\n\n"

\* a source with finish_reason "stop" and a usage object
C27_WitnessUsage ==
  /\ rx[1].state = "ended"
  /\ sse[1].response_bytes = UpstreamBodies[1]
  /\ Len(rx[1].received) = 4

\* every frame that has the envelope of the source and one choice with index
\* 0 made from the first choice alone: a piece of its content or the empty
\* delta, finish_reason null, "stop" or that of the first choice, with or
\* without the usage of the source
EnvelopeFrames(bytes) ==
  LET content == ChatContent(bytes)
      W == Cardinality(WordStarts(content))
      delta(k) == IF k = 0 THEN JObj(<< >>)
                  ELSE JObj([content |-> JStr(Piece(content, k))])
      finish_reason ==
        << JNull, JStr(Chars_stop),
           IF "finish_reason" \in DOMAIN FirstChoice(bytes).o
           THEN FirstChoice(bytes).o["finish_reason"] ELSE JNull >>
      chunk(k, f) ==
        Envelope(bytes, JObj([index |-> JNum(0), delta |-> delta(k),
                              finish_reason |-> finish_reason[f]]))
      source == from_slice(bytes).v.o
  IN {Frame(JObj(chunk(k, f))) : k \in 0 .. W, f \in 1 .. 3}
       \cup (IF "usage" \in DOMAIN source
             THEN {Frame(JObj(chunk(k, f) @@ ("usage" :> source["usage"]))) :
                     k \in 0 .. W, f \in 1 .. 3}
             ELSE {})

\* C28: every frame that a chat-content stream delivers before the sentinel
\* carries the id, created and model of the source ("unknown", 0, "unknown"
\* when the source lacks them), object "chat.completion.chunk" and exactly
\* one choice, with index 0, made from the first choice of the source alone
C28_SameEnvelopeFirstChoiceOnly ==
  \A p \in Tasks :
    (rx[p].state = "ended" /\ HasChatContent(sse[p].response_bytes))
      => \A k \in 1 .. Len(rx[p].received) :
           IF k = Len(rx[p].received)
           THEN rx[p].received[k] = DoneMarker
           ELSE rx[p].received[k] \in EnvelopeFrames(sse[p].response_bytes)

\* a source without id, created and model: the defaults appear in every frame
C28_Witness ==
  /\ rx[1].state = "ended"
  /\ sse[1].response_bytes = UpstreamBodies[2]
  /\ Len(rx[1].received) = 4
  /\ rx[1].received[2] =
       "data: {\"choices\":[{\"delta\":{\"content\":\"bc\"},\"finish_reason\":null,\"index\":0}],\"created\":0,\"id\":\"unknown\",\"model\":\"unknown\",\"object\":\"chat.completion.chunk\"}\n\n"

\* a source with two choices: one word frame, from the first choice
C28_WitnessTwoChoices ==
  /\ rx[1].state = "ended"
  /\ sse[1].response_bytes = UpstreamBodies[3]
  /\ rx[1].received[1] =
       "data: {\"choices\":[{\"delta\":{\"content\":\"ok\"},\"finish_reason\":null,\"index\":0}],\"created\":0,\"id\":\"c1\",\"model\":\"unknown\",\"object\":\"chat.completion.chunk\"}\n\n"

\* the inbound body does not ask for a stream: it is not JSON, or not an
\* object, or has no "stream" field, or the field is not the boolean true
StreamNotRequested(bytes) ==
  LET parsed == from_slice(bytes)
  IN \/ ~parsed.ok
     \/ parsed.v.t # "obj"
     \/ "stream" \notin DOMAIN parsed.v.o
     \/ parsed.v.o["stream"].t # "bool"
     \/ ~parsed.v.o["stream"].b

\* C29: when the inbound body is not JSON, or is JSON without a "stream"
\* field, or its "stream" field is false or not a boolean, the body is
\* forwarded byte for byte, the stream flag is false, no stream is synthesized
\* and an error response comes only from a transport failure or an unusable
\* gateway token, never from the body
C29_BodyPassedThrough ==
  \A p \in Tasks :
    (req[p] # None /\ StreamNotRequested(req[p].body))
      => /\ ~local[p].was_stream_request
         /\ \A k \in 1 .. Len(outbound[p]) : outbound[p][k].body = req[p].body
         /\ pc[p] \in {"sending", "reading"}
              => Len(outbound[p]) = 1 /\ local[p].modified_body = req[p].body
         /\ pc[p] = "done"
              => \/ result[p].error = "" /\ Len(outbound[p]) = 1
                 \/ local[p].failure # None
                 \/ /\ result[p].error = "BadRequest"
                    /\ result[p].body.bytes = Bytes("Invalid gateway token format")
         /\ sse[p].pc = "none"

\* a body whose "stream" field is the string "true" was forwarded as it came
C29_Witness ==
  /\ pc[1] = "done"
  /\ result[1].error = ""
  /\ req[1].body = Bytes("{\"model\":\"m\",\"stream\":\"true\"}")
  /\ outbound[1][1].body = Bytes("{\"model\":\"m\",\"stream\":\"true\"}")
  /\ ~local[1].was_stream_request
  /\ ~result[1].body.stream

\* a body that is not valid UTF-8 was forwarded as it came
C29_WitnessNotJson ==
  /\ pc[1] = "done"
  /\ result[1].error = ""
  /\ req[1].body = InvalidUtf8
  /\ outbound[1][1].body = InvalidUtf8

\* the names removed from outbound requests
RemovedFromRequests ==
  {"host", "content-length", "connection", "keep-alive", "proxy-authenticate",
   "proxy-authorization", "te", "trailers", "transfer-encoding", "upgrade"}

\* the response has the upstream headers but those named, each unchanged
UpstreamHeadersWithout(p, names) ==
  /\ DOMAIN result[p].headers = DOMAIN local[p].response_headers \ names
  /\ \A name \in DOMAIN result[p].headers :
       result[p].headers[name] = local[p].response_headers[name]

\* C30: on the verbatim path the response headers are the upstream response
\* headers minus the ten names removed from outbound requests (host,
\* content-length, connection, keep-alive, proxy-authenticate,
\* proxy-authorization, te, trailers, transfer-encoding, upgrade), every
\* other upstream header unchanged
C30_ResponseMinusRequestSet ==
  \A p \in Tasks :
    (pc[p] = "done" /\ result[p].error = "" /\ ~result[p].body.stream)
      => UpstreamHeadersWithout(p, RemovedFromRequests)

\* C30 as the code has it: on the verbatim path the response headers are the
\* upstream response headers minus connection, keep-alive, proxy-authenticate,
\* proxy-authorization, te, trailers, transfer-encoding and upgrade; host and
\* content-length, which are removed from outbound requests, are returned
\* like every other upstream header
C30_ResponseMinusHopByHop ==
  \A p \in Tasks :
    (pc[p] = "done" /\ result[p].error = "" /\ ~result[p].body.stream)
      => UpstreamHeadersWithout(p, RemovedFromRequests \ {"host", "content-length"})

\* the upstream's content-length is returned to the client
C30_Witness ==
  /\ pc[1] = "done" /\ result[1].error = ""
  /\ ~result[1].body.stream
  /\ local[1].response_headers = UpstreamHeaders[1]
  /\ result[1].headers =
       ("content-type" :> << "application/json" >>) @@ ("content-length" :> << "120" >>)

\* the position (from 0) of a gateway in the configured list
PositionOf(gateway) ==
  (CHOOSE i \in 1 .. Len(gateways) : gateways[i] = gateway) - 1

\* C31: the call of next_gateway that observes the largest counter value and
\* the call after it, which observes 0, select consecutive gateways modulo N:
\* at the overflow no gateway is skipped or selected twice in a row
C31_OrderAcrossWrap ==
  \A k \in 1 .. Len(selected) - 1 :
    selected[k].value = Modulus - 1
      => /\ selected[k + 1].value = 0
         /\ PositionOf(selected[k + 1].gateway)
              = (PositionOf(selected[k].gateway) + 1) % Len(gateways)

\* the overflow was passed: a selection observed the largest value and the
\* next one observed 0
C31_WrapReached ==
  \E k \in 1 .. Len(selected) - 1 :
    selected[k].value = Modulus - 1 /\ selected[k + 1].value = 0

\* what a step may change: a gateway selection, a key selection, or any
\* other call on the Config
IndependentStep ==
  /\ selected' # selected
       => /\ gateway_counter' = (gateway_counter + 1) % Modulus
          /\ provider_counters' = provider_counters
          /\ issued' = issued
  /\ \A name \in ProviderNames :
       issued'[name] # issued[name]
         => /\ gateway_counter' = gateway_counter
            /\ selected' = selected
            /\ DOMAIN provider_counters' = DOMAIN provider_counters
            /\ \A other \in DOMAIN provider_counters \ {name} :
                 provider_counters'[other] = provider_counters[other]
            /\ IF issued'[name][Len(issued'[name])] = None
               THEN provider_counters' = provider_counters
               ELSE provider_counters'[name] = (provider_counters[name] + 1) % Modulus
  /\ (ConfigExists /\ selected' = selected /\ issued' = issued)
       => /\ gateway_counter' = gateway_counter
          /\ provider_counters' = provider_counters

\* C32: a next_gateway call changes the gateway counter and no provider
\* counter; a next_api_key call that returns a key changes the counter of
\* its provider only, one that returns None changes no counter; every other
\* call on the Config, current_gateway_token included, changes no counter.
\* Hence the gateways selected and the keys issued are what they are without
\* the calls in between.
C32_CountersIndependent ==
  /\ [][IndependentStep]_vars
  /\ [](/\ \A k \in 1 .. Len(selected) :
             selected[k].gateway = gateways[((k - 1) % Len(gateways)) + 1]
        /\ \A name \in DOMAIN provider_counters : \A k \in 1 .. Len(issued[name]) :
             issued[name][k]
               = Some(providers[name].api_keys[
                        ((k - 1) % Len(providers[name].api_keys)) + 1]))

\* gateway selections, key selections of two providers and a token read
\* were interleaved
C32_Witness ==
  /\ ConfigExists
  /\ Len(selected) = 2 /\ gateway_counter = 2
  /\ DOMAIN provider_counters = {"openai", "gemini"}
  /\ provider_counters["openai"] = 3 /\ Len(issued["openai"]) = 3
  /\ provider_counters["gemini"] = 1 /\ Len(issued["gemini"]) = 1
  /\ ret.op = "current_gateway_token" /\ ret.at = 2

\* C33: every clone of the Config holds the counter cells of the Config that
\* from_toml returned, and cloning allocates no cell; the selections made
\* through all the clones form one rotation sequence: they observe the
\* counter values 0, 1, 2, ... and the k-th of them returns
\* gateways[(k-1) mod N], and likewise for the keys of a provider
C33_ClonesShareCounters ==
  /\ copies = << >>
  /\ \A p \in Tasks : state[p] # None => state[p] = Original
  /\ \A k \in 1 .. Len(selected) :
       /\ selected[k].value = k - 1
       /\ selected[k].gateway = gateways[((k - 1) % Len(gateways)) + 1]
  /\ \A k \in 1 .. Len(issued["openai"]) :
       issued["openai"][k]
         = Some(providers["openai"].api_keys[
                  ((k - 1) % Len(providers["openai"].api_keys)) + 1])
  /\ (ret # None /\ ret.op = "current_gateway_token" /\ ret.at >= 1)
       => ret.token = selected[ret.at].gateway.token

\* two requests hold clones; four gateway selections and three key
\* selections were made and the rotation went on from clone to clone
C33_Witness ==
  /\ \A p \in 1 .. 2 : state[p] # None
  /\ Len(gateways) = 3
  /\ Len(selected) = 4
  /\ selected[4].gateway = gateways[1]
  /\ gateway_counter = 4
  /\ issued["openai"] = << Some("sk-openai-1"), Some("sk-openai-2"), Some("sk-openai-1") >>

\* the frames the producer generates for a response body, from the first to
\* the sentinel
GeneratedFrames(bytes) ==
  IF HasChatContent(bytes) THEN DescribedFrames(bytes)
  ELSE IF HasFirstChoice(bytes) THEN << FirstChoiceFrame(bytes), DoneMarker >>
  ELSE IF from_slice(bytes).ok /\ Choices(from_slice(bytes).v) = None
  THEN << Frame(from_slice(bytes).v), DoneMarker >>
  ELSE IF ~from_slice(bytes).ok /\ from_utf8(bytes).ok
  THEN << sse_data(from_utf8(bytes).v), DoneMarker >>
  ELSE << DoneMarker >>

StreamBodies == UpstreamBodies \o << LongBody >>
GeneratedTable == [b \in 1 .. Len(StreamBodies) |-> GeneratedFrames(StreamBodies[b])]
Generated(bytes) ==
  GeneratedTable[CHOOSE b \in 1 .. Len(StreamBodies) : StreamBodies[b] = bytes]

\* C34: at every moment the frames the consumer of a synthesized stream has
\* received are a prefix of the frames the producer generates for the
\* response body of that request, and so are the received frames followed by
\* the frames waiting in the channel: no frame is reordered, duplicated or
\* dropped.  The channel never holds more than 100 frames: the producer of a
\* longer stream waits for the consumer.  A stream that has ended delivered
\* every generated frame, and no frame of one request other than the
\* sentinel occurs in the stream of a concurrent request with another body.
C34_ReceivedIsPrefixOfGenerated ==
  /\ \A p \in Tasks :
       sse[p].pc # "none"
         => \E generated \in {Generated(sse[p].response_bytes)} :
              /\ IsPrefix(rx[p].received, generated)
              /\ IsPrefix(Emitted(p), generated)
              /\ Len(chan[p]) <= ChannelCapacity
              /\ rx[p].state = "ended" => rx[p].received = generated
  /\ \A p, q \in Tasks :
       (/\ p # q
        /\ sse[p].pc # "none"
        /\ sse[q].pc # "none"
        /\ sse[p].response_bytes # sse[q].response_bytes)
         => \E other \in {Generated(sse[q].response_bytes)} :
              \A k \in 1 .. Len(rx[p].received) :
                \/ rx[p].received[k] = DoneMarker
                \/ \A j \in 1 .. Len(other) : other[j] # rx[p].received[k]

\* the consumer of the long stream has received one frame, the channel holds
\* 100 frames and the producer waits with the terminal frame, while the
\* concurrent short stream has been read to its end
C34_Witness ==
  /\ sse[1].response_bytes = LongBody
  /\ Len(rx[1].received) = 1
  /\ Len(chan[1]) = ChannelCapacity
  /\ sse[1].pc = "final"
  /\ ~CanSend(1)
  /\ rx[2].state = "ended"
  /\ Len(rx[2].received) = 2

\* the long stream has been read to its end: 101 word frames, the terminal
\* frame and the sentinel
C34_WitnessAllDelivered ==
  /\ rx[1].state = "ended"
  /\ Len(rx[1].received) = LongWords + 2

\* the body is a JSON object whose choices field is an empty array
HasEmptyChoices(bytes) ==
  \E parsed \in {from_slice(bytes)} :
    /\ parsed.ok
    /\ parsed.v.t = "obj"
    /\ "choices" \in DOMAIN parsed.v.o
    /\ parsed.v.o["choices"] = JArr(<< >>)

\* C35: when the upstream JSON has a choices field that is an empty array,
\* the stream carries no payload frame: at every moment the frames emitted
\* are none or the sentinel alone, and a consumer that reads to the end has
\* received exactly one frame, the sentinel.
C35_EmptyChoicesSentinelOnly ==
  \A p \in Tasks :
    (sse[p].pc # "none" /\ HasEmptyChoices(sse[p].response_bytes))
      => /\ Emitted(p) \in {<< >>, << DoneMarker >>}
         /\ rx[p].state = "ended" => rx[p].received = << DoneMarker >>
         /\ (sse[p].pc = "end" /\ rx[p].state = "open") => Emitted(p) = << DoneMarker >>

\* the document {"choices":[],"id":"c1"} was streamed and read to the end
C35_Witness ==
  /\ rx[1].state = "ended"
  /\ sse[1].response_bytes = Bytes("{\"choices\":[],\"id\":\"c1\"}")
  /\ HasEmptyChoices(sse[1].response_bytes)
  /\ rx[1].received = << "data: [DONE]\n\n" >>

\* C36: the response of a synthesized stream has exactly three headers,
\* content-type: text/event-stream, cache-control: no-cache and connection:
\* keep-alive, whatever headers the upstream response carried: no upstream
\* header is copied, neither its content-length nor its content-type:
\* application/json.
C36_StreamHeadersExactlyThree ==
  \A p \in Tasks :
    (pc[p] = "done" /\ result[p].error = "" /\ result[p].body.stream)
      => /\ DOMAIN result[p].headers = {"content-type", "cache-control", "connection"}
         /\ result[p].headers["content-type"] = << "text/event-stream" >>
         /\ result[p].headers["cache-control"] = << "no-cache" >>
         /\ result[p].headers["connection"] = << "keep-alive" >>
         /\ \A name \in DOMAIN local[p].response_headers :
              name \in DOMAIN result[p].headers
                => result[p].headers[name] # local[p].response_headers[name]

\* the upstream response carried connection: close, content-type:
\* application/json and nine more headers
C36_Witness ==
  /\ pc[1] = "done" /\ result[1].error = ""
  /\ result[1].body.stream
  /\ local[1].response_headers = UpstreamHeaders[2]
  /\ local[1].response_headers["connection"] = << "close" >>
  /\ "x-request-id" \notin DOMAIN result[1].headers
  /\ result[1].headers["content-type"] = << "text/event-stream" >>

\* the upstream response carried a content-length
C36_WitnessContentLength ==
  /\ pc[1] = "done" /\ result[1].error = ""
  /\ result[1].body.stream
  /\ "content-length" \in DOMAIN local[1].response_headers
  /\ "content-length" \notin DOMAIN result[1].headers

\* the path and query without a leading "/v1" that is a whole path segment
WithoutVersionSegment(path_query) ==
  IF /\ Len(path_query) >= 3
     /\ SubSeq(path_query, 1, 3) = << "/", "v", "1" >>
     /\ (Len(path_query) = 3 \/ path_query[4] \in {"/", "?"})
  THEN SubSeq(path_query, 4, Len(path_query))
  ELSE path_query

\* C37: the URL of the single-gateway program is its base URL, "/openai"
\* and the request path without a leading "/v1", which is removed only when
\* it is a whole path segment: "/v1/chat/completions" appends
\* "/chat/completions", a path without the prefix is appended as it is, only
\* one leading occurrence is removed, and "/v1beta/models" is appended as it
\* is.
C37_WholeSegmentOnly ==
  \A p \in Tasks : \A k \in 1 .. Len(outbound[p]) :
    outbound[p][k].url
      = "https://gateway.ai.cloudflare.com/v1/acct1/gw1/openai"
          \o Flat(WithoutVersionSegment(req[p].uri))

\* the request for "/v1beta/models" was sent to ".../openaibeta/models"
C37_PrefixOfSegmentStripped ==
  /\ outbound[1] # << >>
  /\ Flat(req[1].uri) = "/v1beta/models"
  /\ outbound[1][1].url = "https://gateway.ai.cloudflare.com/v1/acct1/gw1/openaibeta/models"

\* what holds of the code: the first three characters are removed whenever
\* they are "/v1", once
C37_LeadingCharactersStripped ==
  \A p \in Tasks : \A k \in 1 .. Len(outbound[p]) :
    \E uri \in {Flat(req[p].uri)} :
      outbound[p][k].url
        = "https://gateway.ai.cloudflare.com/v1/acct1/gw1/openai"
            \o CASE uri = "/v1/chat/completions" -> "/chat/completions"
                 [] uri = "/chat/completions" -> "/chat/completions"
                 [] uri = "/v1/v1/models" -> "/v1/models"
                 [] uri = "/v1beta/models" -> "beta/models"
                 [] uri = "/v1" -> ""
                 [] uri = "/v1?n=1" -> "?n=1"
                 [] uri = "/v" -> "/v"

\* C38: current_gateway_token on a Config on which next_gateway was never
\* called returns a token: the counter value 0 minus 1 wraps to 2^w - 1 and
\* the call returns the token of gateways[(2^w - 1) mod N], which is the last
\* gateway gateways[N-1] exactly when N divides 2^w.
C38_TokenBeforeAnySelection ==
  (ret # None /\ ret.op = "current_gateway_token" /\ ret.at = 0)
    => \E N \in {Len(gateways)} :
         /\ ret.token = gateways[((2 ^ CounterBits - 1) % N) + 1].token
         /\ (ret.token = gateways[N].token) <=> ((2 ^ CounterBits) % N = 0)

\* three gateways, no selection yet: the token returned is not the token of
\* the last gateway
C38_Witness ==
  /\ ret # None /\ ret.op = "current_gateway_token" /\ ret.at = 0
  /\ Len(gateways) = 3
  /\ ret.token = gateways[((2 ^ CounterBits - 1) % 3) + 1].token
  /\ ret.token # gateways[3].token

\* two gateways, no selection yet: the token of the last gateway
C38_WitnessPowerOfTwo ==
  /\ ret # None /\ ret.op = "current_gateway_token" /\ ret.at = 0
  /\ Len(gateways) = 2
  /\ ret.token = "tok2"
====
